---- MODULE Spec2Model ----
(***************************************************************************)
(* Model of the v2 pricing pipeline of wgibby/pricing-scraper:             *)
(*   v2/models.py        PricingPlan, PricingExtraction, Confidence        *)
(*   v2/llm_client.py    extract_pricing, _parse_response, _error_result   *)
(*   v2/extractor.py     extract_with_fallback, _try_tier_2/_4, _is_good   *)
(*   v2/html_cleaner.py  clean_html and its passes, _truncate              *)
(*   v2/orchestrator.py  scrape_one, _browser_phase, run_scrape,           *)
(*                       _run_sequential, _run_concurrent                  *)
(*   v2/registry.py      resolve_url, get_proxy_config                     *)
(*   enhanced_proxy_utils.py  get_validated_proxy_for_country              *)
(*                                                                         *)
(* Python values are encoded as follows.                                   *)
(*   Optional[T]  : the empty set for None, the singleton {v} for v.       *)
(*   JSON value   : a one-field record whose field name is the JSON type,  *)
(*                  [str |-> s], [num |-> n], [bool |-> b], [null |-> T],  *)
(*                  [list |-> seq], [obj |-> dict].                        *)
(*   dict         : a function whose DOMAIN is the set of keys present.    *)
(*   call outcome : [raised |-> FALSE, value |-> v] for a normal return,   *)
(*                  [raised |-> TRUE, exc |-> text] for an exception.      *)
(***************************************************************************)
EXTENDS Integers, Sequences, FiniteSets, TLC

VARIABLES
    \* ---- quality gate harness (extractor._is_good) ----
    gate_pc, gate_arg, gate_ret,
    \* ---- extraction client harness (llm_client) ----
    cl_pc, cl_fn, cl_path, cl_env, cl_resp, cl_out,
    \* ---- extraction cascade (extractor.extract_with_fallback) ----
    casc_pc, html, screenshot_path, casc_env, tier2_state, tier2_result,
    tier4_state, tier4_result, reducer_calls, html_calls, vision_calls,
    casc_ret,
    \* ---- job orchestrator (orchestrator.run_scrape) ----
    run_pc, sites, countries, concurrent, max_workers, stub, pairs,
    item_pc, item_world, futures, results, returned, interrupted,
    \* ---- per item: the calls its scrape_one made; after run_scrape: the
    \* paths save_results returned, the files it wrote, the summary counts ----
    item_calls, saved_paths, written, summary,
    \* ---- content reducer (html_cleaner.clean_html) ----
    red_pc, red_in, red_tree, red_soup, red_cleaned, red_strategy, red_out,
    red_again,
    \* ---- validated-proxy loop
    \* (enhanced_proxy_utils.get_validated_proxy_for_country) ----
    px_pc, px_country, px_max, px_i, px_history, px_ret,
    \* ---- one work item, statement by statement (registry.get_proxy_config,
    \* orchestrator.scrape_one and _browser_phase) ----
    so_pc, so_site, so_modules, so_proxy, so_cascade, so_status,
    bp_browser, bp_launch_arg, bp_closes, so_exc

gateVars == <<gate_pc, gate_arg, gate_ret>>
clientVars == <<cl_pc, cl_fn, cl_path, cl_env, cl_resp, cl_out>>
cascadeVars == <<casc_pc, html, screenshot_path, casc_env, tier2_state,
                 tier2_result, tier4_state, tier4_result, reducer_calls,
                 html_calls, vision_calls, casc_ret>>
orchVars == <<run_pc, sites, countries, concurrent, max_workers, stub, pairs,
              item_pc, item_world, futures, results, returned, interrupted,
              item_calls, saved_paths, written, summary>>
reducerVars == <<red_pc, red_in, red_tree, red_soup, red_cleaned,
                 red_strategy, red_out, red_again>>
proxyVars == <<px_pc, px_country, px_max, px_i, px_history, px_ret>>
scrapeVars == <<so_pc, so_site, so_modules, so_proxy, so_cascade, so_status,
                bp_browser, bp_launch_arg, bp_closes, so_exc>>
unitVars == <<reducerVars, proxyVars, scrapeVars>>
vars == <<gateVars, clientVars, cascadeVars, orchVars, unitVars>>

(***************************************************************************)
(* Bounds of the model.                                                    *)
(***************************************************************************)
MaxPlans == 2        \* longest plan list drawn for a result or a payload
MaxCountries == 2    \* longest requested country list
MaxItems == 2        \* most work items of a freely chosen batch
MaxWorkers == 2      \* largest max_workers of a freely chosen batch
MaxBlocks == 3       \* most pieces a page given to the reducer is made of
MaxProxyAttempts == 3  \* largest max_proxy_attempts drawn for the proxy loop

(***************************************************************************)
(* Generic helpers.                                                        *)
(***************************************************************************)
None == {}
Some(v) == {v}
TheValue(opt) == CHOOSE v \in opt : TRUE

Ret(v) == [raised |-> FALSE, value |-> v]
Raise(text) == [raised |-> TRUE, exc |-> text]

Range(s) == {s[i] : i \in 1..Len(s)}

SeqsUpTo(S, n) == UNION {[1..k -> S] : k \in 0..n}

RECURSIVE FilterSeq(_, _)
\* the list comprehension [x for x in s if x in Keep]
FilterSeq(s, Keep) ==
    IF s = <<>> THEN <<>>
    ELSE IF Head(s) \in Keep
         THEN <<Head(s)>> \o FilterSeq(Tail(s), Keep)
         ELSE FilterSeq(Tail(s), Keep)

(***************************************************************************)
(* v2/models.py                                                            *)
(***************************************************************************)
Confidence == {"high", "medium", "low"}

PriceFields == {"monthly_price", "annual_price", "annual_monthly_equivalent"}

\* PricingPlan instances used to exercise the gate: every combination of
\* the five fields the gate reads (0 is a numeric price, as for a promo).
AllPlans ==
    [plan_name : {"Plan"},
     monthly_price : {None, Some(0), Some(10)},
     annual_price : {None, Some(100)},
     annual_monthly_equivalent : {None, Some(8)},
     is_free_tier : BOOLEAN,
     is_contact_sales : BOOLEAN]

PricingExtraction(code, symbol, plans, conf, notes) ==
    [currency_code |-> code,
     currency_symbol |-> symbol,
     plans |-> plans,
     extraction_confidence |-> conf,
     extraction_notes |-> notes]

\* ---- raw JSON as the service returns it in a tool_use block ----
JStr(s) == [str |-> s]
JNum(n) == [num |-> n]
JBool(b) == [bool |-> b]
JNull == [null |-> TRUE]
JList(l) == [list |-> l]

IsStr(v) == "str" \in DOMAIN v
IsNum(v) == "num" \in DOMAIN v
IsBool(v) == "bool" \in DOMAIN v
IsNull(v) == "null" \in DOMAIN v
IsList(v) == "list" \in DOMAIN v

\* Optional[float] field of a raw plan: absent or null -> None, number -> it
OptFloatValid(d, k) == k \notin DOMAIN d \/ IsNum(d[k]) \/ IsNull(d[k])
OptFloat(d, k) == IF k \in DOMAIN d /\ IsNum(d[k]) THEN Some(d[k].num) ELSE None

\* PricingPlan.model_validate(plan_data) succeeds.  The fields
\* billing_periods_available, target_audience, key_features and notes are
\* taken as present and well typed in every raw plan of the model.
PlanIsValid(d) ==
    /\ "plan_name" \in DOMAIN d /\ IsStr(d["plan_name"])
    /\ \A k \in PriceFields : OptFloatValid(d, k)
    /\ "is_free_tier" \in DOMAIN d /\ IsBool(d["is_free_tier"])
    /\ "is_contact_sales" \in DOMAIN d /\ IsBool(d["is_contact_sales"])

\* the PricingPlan that PricingPlan.model_validate(plan_data) builds
PlanValidate(d) ==
    [plan_name |-> d["plan_name"].str,
     monthly_price |-> OptFloat(d, "monthly_price"),
     annual_price |-> OptFloat(d, "annual_price"),
     annual_monthly_equivalent |-> OptFloat(d, "annual_monthly_equivalent"),
     is_free_tier |-> d["is_free_tier"].bool,
     is_contact_sales |-> d["is_contact_sales"].bool]

\* PricingExtraction.model_validate(tool_input) succeeds
ExtractionIsValid(d) ==
    /\ "currency_code" \in DOMAIN d /\ IsStr(d["currency_code"])
    /\ "currency_symbol" \in DOMAIN d /\ IsStr(d["currency_symbol"])
    /\ "plans" \in DOMAIN d /\ IsList(d["plans"])
    /\ \A i \in 1..Len(d["plans"].list) : PlanIsValid(d["plans"].list[i])
    /\ "extraction_confidence" \in DOMAIN d
    /\ IsStr(d["extraction_confidence"])
    /\ d["extraction_confidence"].str \in Confidence

ExtractionValidate(d) ==
    PricingExtraction(
        d["currency_code"].str,
        d["currency_symbol"].str,
        [i \in 1..Len(d["plans"].list) |-> PlanValidate(d["plans"].list[i])],
        d["extraction_confidence"].str,
        None)

IsObj(v) == "obj" \in DOMAIN v
JObj(d) == [obj |-> d]

\* a dict holding exactly the keys whose option in opts is not None
DictOf(opts) ==
    [k \in {x \in DOMAIN opts : opts[x] # None} |-> TheValue(opts[k])]

(***************************************************************************)
(* What the extraction service can send back.                              *)
(***************************************************************************)
RawFree ==
    [plan_name |-> JStr("Free"),
     is_free_tier |-> JBool(TRUE), is_contact_sales |-> JBool(FALSE)]
RawPro ==
    [plan_name |-> JStr("Pro"), monthly_price |-> JNum(10),
     is_free_tier |-> JBool(FALSE), is_contact_sales |-> JBool(FALSE)]
RawBusiness ==
    [plan_name |-> JStr("Business"), monthly_price |-> JNull,
     is_free_tier |-> JBool(FALSE), is_contact_sales |-> JBool(FALSE)]
RawEnterprise ==
    [plan_name |-> JStr("Enterprise"),
     is_free_tier |-> JBool(FALSE), is_contact_sales |-> JBool(TRUE)]
\* two entries that PricingPlan rejects: no plan_name, non-numeric price
RawNoName ==
    [monthly_price |-> JNum(5),
     is_free_tier |-> JBool(FALSE), is_contact_sales |-> JBool(FALSE)]
RawBadPrice ==
    [plan_name |-> JStr("Team"), monthly_price |-> JStr("n/a"),
     is_free_tier |-> JBool(FALSE), is_contact_sales |-> JBool(FALSE)]

RawPlans == {RawFree, RawPro, RawBusiness, RawEnterprise, RawNoName, RawBadPrice}

\* the tool_use inputs: each key may be absent, ill typed or well typed
Payloads ==
    {DictOf([currency_code |-> c, currency_symbol |-> s, plans |-> p,
             extraction_confidence |-> k]) :
        c \in {None, Some(JStr("EUR")), Some(JNum(978))},
        s \in {None, Some(JStr("E"))},
        p \in {None, Some(JStr("n/a"))}
              \cup {Some(JList(l)) : l \in SeqsUpTo(RawPlans, MaxPlans)},
        k \in {None, Some(JStr("high")), Some(JStr("medium")),
               Some(JStr("low")), Some(JStr("certain"))}}

TextBlock == [type |-> "text"]
ToolUse(name, input) == [type |-> "tool_use", name |-> name, input |-> input]

\* response.content of a message the service returned
ResponseContents ==
    {<<>>, <<TextBlock>>, <<ToolUse("other_tool", JObj(<<>>))>>}
    \cup {<<ToolUse("extract_pricing_data", JObj(d))>> : d \in Payloads}
    \cup {<<TextBlock, ToolUse("extract_pricing_data", JObj(d))>> :
              d \in Payloads}

\* the behaviour of client.messages.create for one call
ServiceResponses ==
    {[kind |-> "api_error"], [kind |-> "exception"]}
    \cup {[kind |-> "message", content |-> c] : c \in ResponseContents}

\* the process environment of the client: whether anthropic.Anthropic()
\* can be constructed, and whether Pillow can be imported
ClientEnvs == [client_ok : BOOLEAN, pillow : BOOLEAN]

(***************************************************************************)
(* v2/llm_client.py                                                        *)
(***************************************************************************)
MAX_IMAGE_DIMENSION == 8000

RECURSIVE SalvagePlansStopAtInvalid(_)
\* a salvage loop that gives up at the first entry that does not validate
SalvagePlansStopAtInvalid(l) ==
    IF l = <<>> THEN <<>>
    ELSE IF PlanIsValid(Head(l))
         THEN <<PlanValidate(Head(l))>> \o SalvagePlansStopAtInvalid(Tail(l))
         ELSE <<>>

RECURSIVE SalvagePlans(_)
\* the loop over raw_input["plans"]: append what validates, skip the rest
SalvagePlans(l) ==
    IF l = <<>> THEN <<>>
    ELSE IF PlanIsValid(Head(l))
         THEN <<PlanValidate(Head(l))>> \o SalvagePlans(Tail(l))
         ELSE SalvagePlans(Tail(l))

\* line 277: the dict the salvage reads: raw_input itself when it is a
\* non-empty dict, and otherwise a dict without keys (raw_input is None or
\* Some(JSON value))
SalvageSource(raw_input) ==
    IF /\ raw_input # None
       /\ IsObj(TheValue(raw_input))
       /\ DOMAIN TheValue(raw_input).obj # {}
    THEN TheValue(raw_input).obj
    ELSE <<>>

\* a salvage that trusts the confidence the payload states
SalvageFromKeepingConfidence(message, d) ==
    PricingExtraction(
        IF "currency_code" \in DOMAIN d /\ IsStr(d["currency_code"])
        THEN d["currency_code"].str ELSE "UNKNOWN",
        IF "currency_symbol" \in DOMAIN d /\ IsStr(d["currency_symbol"])
        THEN d["currency_symbol"].str ELSE "?",
        IF "plans" \in DOMAIN d /\ IsList(d["plans"])
        THEN SalvagePlans(d["plans"].list) ELSE <<>>,
        IF /\ "extraction_confidence" \in DOMAIN d
           /\ IsStr(d["extraction_confidence"])
        THEN d["extraction_confidence"].str ELSE "low",
        Some(message))

\* lines 273-298 on the dict d
SalvageFrom(message, d) ==
    PricingExtraction(
        IF "currency_code" \in DOMAIN d /\ IsStr(d["currency_code"])
        THEN d["currency_code"].str ELSE "UNKNOWN",
        IF "currency_symbol" \in DOMAIN d /\ IsStr(d["currency_symbol"])
        THEN d["currency_symbol"].str ELSE "?",
        IF "plans" \in DOMAIN d /\ IsList(d["plans"])
        THEN SalvagePlans(d["plans"].list) ELSE <<>>,
        "low",
        Some(message))

_error_result(message, raw_input) ==
    SalvageFrom(message, SalvageSource(raw_input))

\* the input of first tool_use block named extract_pricing_data, or None
ToolInput(content) ==
    LET hits == {i \in 1..Len(content) :
                    /\ content[i].type = "tool_use"
                    /\ content[i].name = "extract_pricing_data"}
    IN IF hits = {} THEN None
       ELSE Some(content[CHOOSE i \in hits : \A j \in hits : i <= j].input)

\* lines 245-261 once tool_input is found
ParseToolInput(tool_input) ==
    IF tool_input = None
    THEN _error_result("No tool_use block in Claude response", None)
    ELSE IF /\ IsObj(TheValue(tool_input))
            /\ ExtractionIsValid(TheValue(tool_input).obj)
         THEN ExtractionValidate(TheValue(tool_input).obj)
         ELSE _error_result("Pydantic validation failed", tool_input)

_parse_response(response) == ParseToolInput(ToolInput(response.content))

\* extract_pricing under environment env when the service behaves as resp
extract_pricing(env, resp) ==
    IF ~env.client_ok
    THEN Raise("anthropic.Anthropic() failed")
    ELSE IF resp.kind = "api_error"
    THEN Ret(_error_result("Anthropic API error", None))
    ELSE IF resp.kind = "exception"
    THEN Raise("non-API exception from messages.create")
    ELSE Ret(_parse_response(resp))

\* the files a screenshot path can name: readable PNGs of the given size,
\* and one file that is not an image
Files ==
    [name \in {"shot.png", "tall.png", "sliver.png", "corrupt.png"} |->
        CASE name = "shot.png" -> [readable |-> TRUE, w |-> 1200, h |-> 3000]
          [] name = "tall.png" -> [readable |-> TRUE, w |-> 1200, h |-> 20000]
          [] name = "sliver.png" -> [readable |-> TRUE, w |-> 1, h |-> 20000]
          [] name = "corrupt.png" -> [readable |-> FALSE, w |-> 0, h |-> 0]]

PathExists(path) == path \in DOMAIN Files

Max2(a, b) == IF a >= b THEN a ELSE b

\* int(w * scale) with scale = min(MAX/w, MAX/h) = MAX / max(w, h)
Scaled(x, w, h) == (x * MAX_IMAGE_DIMENSION) \div Max2(w, h)

\* an oversized image one of whose scaled dimensions rounds down to 0
Unresizable(f) ==
    /\ f.readable
    /\ (f.w > MAX_IMAGE_DIMENSION \/ f.h > MAX_IMAGE_DIMENSION)
    /\ (Scaled(f.w, f.w, f.h) = 0 \/ Scaled(f.h, f.w, f.h) = 0)

\* lines 134-184 for the file f: the size of the image sent to the
\* service, or the exception that escapes
ResizeFile(f, env) ==
    IF env.pillow
    THEN IF ~f.readable
         THEN Raise("PIL.UnidentifiedImageError")
         ELSE IF f.w <= MAX_IMAGE_DIMENSION /\ f.h <= MAX_IMAGE_DIMENSION
         THEN Ret([w |-> f.w, h |-> f.h])
         ELSE IF Unresizable(f)
         THEN Raise("ValueError: height and width must be > 0")
         ELSE Ret([w |-> Scaled(f.w, f.w, f.h), h |-> Scaled(f.h, f.w, f.h)])
    ELSE \* sips fallback: every Exception ends in path.read_bytes()
         IF f.readable /\ (f.w > MAX_IMAGE_DIMENSION \/ f.h > MAX_IMAGE_DIMENSION)
         THEN Ret([w |-> Scaled(f.w, f.w, f.h), h |-> Scaled(f.h, f.w, f.h)])
         ELSE Ret([w |-> f.w, h |-> f.h])

_resize_if_needed(path, env) == ResizeFile(Files[path], env)

extract_pricing_from_screenshot(path, env, resp) ==
    IF ~PathExists(path)
    THEN Ret(_error_result("Screenshot not found", None))
    ELSE IF _resize_if_needed(path, env).raised
    THEN _resize_if_needed(path, env)
    ELSE extract_pricing(env, resp)

(***************************************************************************)
(* v2/extractor.py : the quality gate                                      *)
(***************************************************************************)
HasNumericPrice(plan) ==
    \/ plan.monthly_price # None
    \/ plan.annual_price # None
    \/ plan.annual_monthly_equivalent # None

_plan_has_price(plan) ==
    \/ HasNumericPrice(plan)
    \/ plan.is_free_tier = TRUE
    \/ plan.is_contact_sales = TRUE

RECURSIVE paid_plans(_)
\* [p for p in result.plans if not p.is_free_tier and not p.is_contact_sales]
paid_plans(plans) ==
    IF plans = <<>> THEN <<>>
    ELSE IF ~Head(plans).is_free_tier /\ ~Head(plans).is_contact_sales
         THEN <<Head(plans)>> \o paid_plans(Tail(plans))
         ELSE paid_plans(Tail(plans))

\* the gate without its stricter paid-plan check
_is_good_without_paid_check(result) ==
    /\ result.extraction_confidence # "low"
    /\ result.plans # <<>>
    /\ \E i \in 1..Len(result.plans) : _plan_has_price(result.plans[i])

\* the gate without its confidence check
_is_good_ignoring_confidence(result) ==
    /\ result.plans # <<>>
    /\ \E i \in 1..Len(result.plans) : _plan_has_price(result.plans[i])
    /\ LET paid == paid_plans(result.plans)
       IN paid # <<>> => \E i \in 1..Len(paid) : HasNumericPrice(paid[i])

_is_good(result) ==
    IF result.extraction_confidence = "low" THEN FALSE
    ELSE IF result.plans = <<>> THEN FALSE
    ELSE IF ~\E i \in 1..Len(result.plans) : _plan_has_price(result.plans[i])
    THEN FALSE
    ELSE LET paid == paid_plans(result.plans)
         IN IF paid # <<>>
               /\ ~\E i \in 1..Len(paid) : HasNumericPrice(paid[i])
            THEN FALSE
            ELSE TRUE

(***************************************************************************)
(* Idle values: each specification below drives one component and leaves   *)
(* the variables of the others at these values.                            *)
(***************************************************************************)
NoExtraction == PricingExtraction("", "", <<>>, "low", None)

GateIdle ==
    /\ gate_pc = "idle" /\ gate_arg = NoExtraction /\ gate_ret = FALSE

ClientIdle ==
    /\ cl_pc = "idle" /\ cl_fn = "" /\ cl_path = ""
    /\ cl_env = [client_ok |-> TRUE, pillow |-> TRUE]
    /\ cl_resp = [kind |-> "api_error"] /\ cl_out = None

CascadeIdle ==
    /\ casc_pc = "idle" /\ html = "" /\ screenshot_path = ""
    /\ casc_env = [client_ok |-> TRUE, pillow |-> TRUE]
    /\ tier2_state = "pending" /\ tier2_result = None
    /\ tier4_state = "pending" /\ tier4_result = None
    /\ reducer_calls = 0 /\ html_calls = 0 /\ vision_calls = 0
    /\ casc_ret = None

OrchIdle ==
    /\ run_pc = "idle" /\ sites = <<>> /\ countries = <<>>
    /\ concurrent = FALSE /\ max_workers = 1 /\ stub = <<>> /\ pairs = <<>>
    /\ item_pc = <<>> /\ item_world = <<>> /\ futures = <<>>
    /\ results = <<>> /\ returned = None /\ interrupted = FALSE
    /\ item_calls = <<>> /\ saved_paths = None /\ written = <<>>
    /\ summary = None

ReducerIdle ==
    /\ red_pc = "idle" /\ red_in = <<>> /\ red_tree = <<>> /\ red_soup = <<>>
    /\ red_cleaned = <<>> /\ red_strategy = "" /\ red_out = None
    /\ red_again = None

ProxyIdle ==
    /\ px_pc = "idle" /\ px_country = "" /\ px_max = 0 /\ px_i = 0
    /\ px_history = <<>> /\ px_ret = None

ScrapeIdle ==
    /\ so_pc = "idle" /\ so_site = <<>>
    /\ so_modules = {} /\ so_proxy = None /\ so_cascade = FALSE
    /\ so_status = "" /\ bp_browser = "none" /\ bp_launch_arg = None
    /\ bp_closes = 0 /\ so_exc = None

UnitsIdle == ReducerIdle /\ ProxyIdle /\ ScrapeIdle

(***************************************************************************)
(* SpecGate: _is_good applied to every result of the bounded domain.       *)
(***************************************************************************)
GateInputs ==
    {PricingExtraction("USD", "$", plans, conf, None) :
        plans \in SeqsUpTo(AllPlans, MaxPlans), conf \in Confidence}

GateInit ==
    /\ gate_pc = "call" /\ gate_arg \in GateInputs /\ gate_ret = FALSE
    /\ ClientIdle /\ CascadeIdle /\ OrchIdle /\ UnitsIdle

CallIsGood ==
    /\ gate_pc = "call"
    /\ gate_ret' = _is_good(gate_arg)
    /\ gate_pc' = "return"
    /\ UNCHANGED <<gate_arg, clientVars, cascadeVars, orchVars, unitVars>>

GateNext == CallIsGood

SpecGate == GateInit /\ [][GateNext]_vars

C14_LowConfidenceAlwaysFails ==
    (gate_pc = "return" /\ gate_arg.extraction_confidence = "low")
        => gate_ret = FALSE

\* the gate refused a low-confidence result with two priced paid plans
C14_Witness ==
    /\ gate_pc = "return" /\ gate_ret = FALSE
    /\ gate_arg.extraction_confidence = "low"
    /\ Len(gate_arg.plans) = 2
    /\ \A i \in 1..2 :
          /\ \A k \in PriceFields : gate_arg.plans[i][k] # None
          /\ ~gate_arg.plans[i].is_free_tier
          /\ ~gate_arg.plans[i].is_contact_sales

(***************************************************************************)
(* SpecClient: one call of the extraction client, for every environment,   *)
(* screenshot file and service behaviour of the bounded domain.            *)
(***************************************************************************)
ScreenshotPaths == {"", "missing.png"} \cup DOMAIN Files

ClientInit ==
    /\ cl_pc = "call"
    /\ cl_env \in ClientEnvs
    /\ cl_resp \in ServiceResponses
    /\ \/ cl_fn = "extract_pricing" /\ cl_path = ""
       \/ cl_fn = "extract_pricing_from_screenshot"
          /\ cl_path \in ScreenshotPaths \ {""}
    /\ cl_out = None
    /\ GateIdle /\ CascadeIdle /\ OrchIdle /\ UnitsIdle

CallExtractPricing ==
    /\ cl_pc = "call" /\ cl_fn = "extract_pricing"
    /\ cl_out' = Some(extract_pricing(cl_env, cl_resp))
    /\ cl_pc' = "return"
    /\ UNCHANGED <<cl_fn, cl_path, cl_env, cl_resp,
                   gateVars, cascadeVars, orchVars, unitVars>>

CallExtractPricingFromScreenshot ==
    /\ cl_pc = "call" /\ cl_fn = "extract_pricing_from_screenshot"
    /\ cl_out' = Some(extract_pricing_from_screenshot(cl_path, cl_env, cl_resp))
    /\ cl_pc' = "return"
    /\ UNCHANGED <<cl_fn, cl_path, cl_env, cl_resp,
                   gateVars, cascadeVars, orchVars, unitVars>>

ClientNext == CallExtractPricing \/ CallExtractPricingFromScreenshot

SpecClient == ClientInit /\ [][ClientNext]_vars

\* the call is one of the failure cases: no client, API error, other
\* exception, no tool_use block, schema-invalid payload, bad image
ClientFailureCase ==
    \/ ~cl_env.client_ok
    \/ cl_resp.kind # "message"
    \/ ToolInput(cl_resp.content) = None
    \/ ~ExtractionIsValid(TheValue(ToolInput(cl_resp.content)).obj)
    \/ /\ cl_fn = "extract_pricing_from_screenshot"
       /\ \/ ~PathExists(cl_path)
          \/ cl_env.pillow /\ ~Files[cl_path].readable
          \/ cl_env.pillow /\ Unresizable(Files[cl_path])

\* C6: the extraction client never raises; every failure case returns a
\* PricingExtraction of confidence low carrying an explanatory note.
C6_ClientNeverRaises ==
    cl_pc = "return" =>
        /\ ~TheValue(cl_out).raised
        /\ ClientFailureCase =>
              /\ TheValue(cl_out).value.extraction_confidence = "low"
              /\ TheValue(cl_out).value.extraction_notes # None

\* the raw plans of the payload the call received
PayloadPlans == TheValue(ToolInput(cl_resp.content)).obj["plans"].list

\* the payload is a dict that fails whole-schema validation and whose plans
\* field is a list
SalvageCase ==
    /\ cl_pc = "return" /\ cl_env.client_ok
    /\ cl_fn = "extract_pricing"
    /\ cl_resp.kind = "message"
    /\ ToolInput(cl_resp.content) # None
    /\ LET d == TheValue(ToolInput(cl_resp.content)).obj
       IN /\ ~ExtractionIsValid(d)
          /\ "plans" \in DOMAIN d /\ IsList(d["plans"])

\* C7: salvage keeps exactly the individually valid plans of a
\* schema-invalid payload, in their original order, and carries string
\* currency_code / currency_symbol fields over instead of the defaults.
C7_SalvageKeepsValidPlans ==
    SalvageCase =>
        LET d == TheValue(ToolInput(cl_resp.content)).obj
            l == PayloadPlans
            ok == {i \in 1..Len(l) : PlanIsValid(l[i])}
            nth(j) == CHOOSE i \in ok : Cardinality({k \in ok : k <= i}) = j
            r == TheValue(cl_out).value
        IN /\ ~TheValue(cl_out).raised
           /\ Len(r.plans) = Cardinality(ok)
           /\ \A j \in 1..Len(r.plans) : r.plans[j] = PlanValidate(l[nth(j)])
           /\ ("currency_code" \in DOMAIN d /\ IsStr(d["currency_code"])
                  => r.currency_code = d["currency_code"].str)
           /\ ("currency_symbol" \in DOMAIN d /\ IsStr(d["currency_symbol"])
                  => r.currency_symbol = d["currency_symbol"].str)

\* an invalid entry followed by a valid one, with a string currency code
C7_Witness ==
    /\ SalvageCase
    /\ Len(PayloadPlans) = 2
    /\ ~PlanIsValid(PayloadPlans[1]) /\ PlanIsValid(PayloadPlans[2])
    /\ TheValue(cl_out).value.currency_code = "EUR"
    /\ Len(TheValue(cl_out).value.plans) = 1

\* C25: a readable image of width and height at least 1 is sent unchanged
\* when both are at most 8000; otherwise it is resized to floor(w*s) by
\* floor(h*s) with s = min(8000/w, 8000/h), and both new dimensions lie in
\* 1..8000.
C25_DownscaleWithinLimits ==
    (/\ cl_pc = "return" /\ cl_fn = "extract_pricing_from_screenshot"
     /\ PathExists(cl_path) /\ Files[cl_path].readable
     /\ Files[cl_path].w >= 1 /\ Files[cl_path].h >= 1) =>
        LET f == Files[cl_path]
            r == _resize_if_needed(cl_path, cl_env)
        IN /\ ~r.raised
           /\ IF f.w <= MAX_IMAGE_DIMENSION /\ f.h <= MAX_IMAGE_DIMENSION
              THEN r.value = [w |-> f.w, h |-> f.h]
              ELSE /\ r.value = [w |-> Scaled(f.w, f.w, f.h),
                                 h |-> Scaled(f.h, f.w, f.h)]
                   /\ r.value.w \in 1..MAX_IMAGE_DIMENSION
                   /\ r.value.h \in 1..MAX_IMAGE_DIMENSION

(***************************************************************************)
(* v2/html_cleaner.py                                                      *)
(*                                                                         *)
(* A markup string is a sequence of tokens: a start tag <name> or          *)
(* <name attr="x">, an end tag </name>, a run of n letters "a", the        *)
(* pricing keyword "$", a run of n spaces.  The strings of the model hold  *)
(* no newline, tab, comment, entity or void element.  A string is kept in  *)
(* normal form (adjacent runs merged), so that equal strings are equal     *)
(* token sequences.                                                        *)
(***************************************************************************)
Open(name, attr) == [k |-> "open", name |-> name, attr |-> attr, n |-> 0]
Close(name) == [k |-> "close", name |-> name, attr |-> "", n |-> 0]
Text(n) == [k |-> "text", name |-> "", attr |-> "", n |-> n]
Kw == [k |-> "kw", name |-> "", attr |-> "", n |-> 1]
Sp(n) == [k |-> "sp", name |-> "", attr |-> "", n |-> n]
\* the first n characters of a tag that the end of the string cuts
Cut(t, n) ==
    [k |-> IF t.k = "open" THEN "cut_open" ELSE "cut_close",
     name |-> t.name, attr |-> t.attr, n |-> n]

\* the characters of a tag name, as code points
NameChars(name) ==
    CASE name = "div" -> <<100, 105, 118>>
      [] name = "main" -> <<109, 97, 105, 110>>
      [] name = "p" -> <<112>>
      [] name = "span" -> <<115, 112, 97, 110>>
      [] name = "script" -> <<115, 99, 114, 105, 112, 116>>
      [] name = "nav" -> <<110, 97, 118>>
      [] name = "table" -> <<116, 97, 98, 108, 101>>
      [] name = "td" -> <<116, 100>>
      [] name = "class" -> <<99, 108, 97, 115, 115>>
      [] name = "title" -> <<116, 105, 116, 108, 101>>

\* the n-fold repetition of the character c
Run(c, n) == [c |-> c, n |-> n]

RECURSIVE RunsOf(_)
\* a sequence of code points as runs of length 1
RunsOf(cs) ==
    IF cs = <<>> THEN <<>> ELSE <<Run(Head(cs), 1)>> \o RunsOf(Tail(cs))

\* name="x" preceded by a space
AttrRuns(attr) ==
    IF attr = "" THEN <<>>
    ELSE <<Run(32, 1)>> \o RunsOf(NameChars(attr))
         \o <<Run(61, 1), Run(34, 1), Run(120, 1), Run(34, 1)>>

\* the characters of a start tag or an end tag
TagRuns(kind, name, attr) ==
    IF kind = "open"
    THEN <<Run(60, 1)>> \o RunsOf(NameChars(name)) \o AttrRuns(attr)
         \o <<Run(62, 1)>>
    ELSE <<Run(60, 1), Run(47, 1)>> \o RunsOf(NameChars(name))
         \o <<Run(62, 1)>>

\* the characters of one token
TokRuns(t) ==
    CASE t.k \in {"open", "close"} -> TagRuns(t.k, t.name, t.attr)
      [] t.k = "text" -> <<Run(97, t.n)>>
      [] t.k = "kw" -> <<Run(36, 1)>>
      [] t.k = "sp" -> <<Run(32, t.n)>>
      [] t.k = "cut_open" -> SubSeq(TagRuns("open", t.name, t.attr), 1, t.n)
      [] t.k = "cut_close" -> SubSeq(TagRuns("close", t.name, ""), 1, t.n)

RECURSIVE SumLen(_)
SumLen(rs) == IF rs = <<>> THEN 0 ELSE Head(rs).n + SumLen(Tail(rs))

\* len() of one token and of a string
TokLen(t) == SumLen(TokRuns(t))

RECURSIVE StrLen(_)
StrLen(s) == IF s = <<>> THEN 0 ELSE TokLen(Head(s)) + StrLen(Tail(s))

RECURSIVE StrRuns(_)
StrRuns(s) == IF s = <<>> THEN <<>> ELSE TokRuns(Head(s)) \o StrRuns(Tail(s))

RECURSIVE RunsGreater(_, _)
\* str > str on two sequences of runs
RunsGreater(a, b) ==
    IF a = <<>> THEN FALSE
    ELSE IF b = <<>> THEN TRUE
    ELSE IF Head(a).n = 0 THEN RunsGreater(Tail(a), b)
    ELSE IF Head(b).n = 0 THEN RunsGreater(a, Tail(b))
    ELSE IF Head(a).c # Head(b).c THEN Head(a).c > Head(b).c
    ELSE IF Head(a).n = Head(b).n THEN RunsGreater(Tail(a), Tail(b))
    ELSE IF Head(a).n < Head(b).n
    THEN RunsGreater(Tail(a),
                     <<Run(Head(b).c, Head(b).n - Head(a).n)>> \o Tail(b))
    ELSE RunsGreater(<<Run(Head(a).c, Head(a).n - Head(b).n)>> \o Tail(a),
                     Tail(b))

StrGreater(s, t) == RunsGreater(StrRuns(s), StrRuns(t))

IsRun(t) == t.k \in {"text", "sp"}

RECURSIVE Norm(_)
\* the normal form of a string: no empty run, no two adjacent runs of the
\* same character
Norm(s) ==
    IF s = <<>> THEN <<>>
    ELSE IF IsRun(Head(s)) /\ Head(s).n = 0 THEN Norm(Tail(s))
    ELSE IF Len(s) >= 2 /\ IsRun(s[1]) /\ s[2].k = s[1].k
    THEN Norm(<<[s[1] EXCEPT !.n = s[1].n + s[2].n]>> \o Tail(Tail(s)))
    ELSE <<Head(s)>> \o Norm(Tail(s))

(* The parse tree: a node is an element with its children, or a string.    *)
Element(name, attr, kids) ==
    [k |-> "el", name |-> name, attr |-> attr, n |-> 0, kids |-> kids]
Leaf(t) == [k |-> t.k, name |-> t.name, attr |-> t.attr, n |-> t.n,
            kids |-> <<>>]
TokenOf(node) ==
    [k |-> node.k, name |-> node.name, attr |-> node.attr, n |-> node.n]

\* the innermost open element is closed and appended to its parent
CloseTop(st) ==
    LET top == st[Len(st)]
        par == st[Len(st) - 1]
    IN SubSeq(st, 1, Len(st) - 2)
       \o <<[par EXCEPT !.kids = Append(par.kids, top)]>>

RECURSIVE PopTo(_, _)
\* the open elements from position j upwards are closed
PopTo(st, j) == IF Len(st) < j THEN st ELSE PopTo(CloseTop(st), j)

\* the positions of the open elements named name; position 1 is the document
OpenNamed(st, name) == {j \in 2..Len(st) : st[j].name = name}

Max(S) == CHOOSE m \in S : \A o \in S : o <= m

RECURSIVE ParseFrom(_, _, _)
\* BeautifulSoup(raw_html, "html.parser"): a start tag opens an element, an
\* end tag closes the innermost open element of that name and everything
\* opened inside it, an end tag that matches no open element is dropped, the
\* end of the input closes what is open; a tag the input ends in the middle
\* of is handed on as text
ParseFrom(ts, i, st) ==
    IF i > Len(ts) THEN PopTo(st, 2)[1].kids
    ELSE IF ts[i].k = "open"
    THEN ParseFrom(ts, i + 1,
                   Append(st, Element(ts[i].name, ts[i].attr, <<>>)))
    ELSE IF ts[i].k = "close"
    THEN IF OpenNamed(st, ts[i].name) = {}
         THEN ParseFrom(ts, i + 1, st)
         ELSE ParseFrom(ts, i + 1, PopTo(st, Max(OpenNamed(st, ts[i].name))))
    ELSE ParseFrom(ts, i + 1,
                   [st EXCEPT ![Len(st)].kids = Append(@, Leaf(ts[i]))])

\* line 62
BeautifulSoup(raw_html) ==
    ParseFrom(raw_html, 1, <<Element("[document]", "", <<>>)>>)

RECURSIVE Serialize(_)
\* the characters of a sequence of nodes, before normalisation
Serialize(nodes) ==
    IF nodes = <<>> THEN <<>>
    ELSE (IF Head(nodes).k = "el"
          THEN <<Open(Head(nodes).name, Head(nodes).attr)>>
               \o Serialize(Head(nodes).kids)
               \o <<Close(Head(nodes).name)>>
          ELSE <<TokenOf(Head(nodes))>>)
         \o Serialize(Tail(nodes))

\* str(soup), str(tag)
Str(nodes) == Norm(Serialize(nodes))

NOISE_TAGS == {"script", "style", "svg", "noscript", "link", "meta",
               "iframe", "img", "picture", "source", "video", "audio",
               "canvas", "map", "object", "embed"}
STRUCTURAL_NOISE_TAGS == {"nav", "footer", "header"}
KEEP_ATTRS == {"aria-label", "alt", "title", "role", "data-testid"}
PRESERVE_EMPTY == {"br", "hr", "td", "th", "tr", "thead", "tbody", "table"}
MAX_OUTPUT_CHARS == 20000

RECURSIVE Decompose(_, _)
\* every element named in names is removed with all it contains
Decompose(nodes, names) ==
    IF nodes = <<>> THEN <<>>
    ELSE IF Head(nodes).k = "el" /\ Head(nodes).name \in names
    THEN Decompose(Tail(nodes), names)
    ELSE IF Head(nodes).k = "el"
    THEN <<[Head(nodes) EXCEPT !.kids = Decompose(@, names)]>>
         \o Decompose(Tail(nodes), names)
    ELSE <<Head(nodes)>> \o Decompose(Tail(nodes), names)

\* lines 86-93
_remove_noise_tags(soup) == Decompose(soup, NOISE_TAGS)

\* lines 96-99
_remove_structural_noise(soup) == Decompose(soup, STRUCTURAL_NOISE_TAGS)

RECURSIVE _strip_attributes(_)
\* lines 102-108
_strip_attributes(nodes) ==
    IF nodes = <<>> THEN <<>>
    ELSE IF Head(nodes).k = "el"
    THEN <<[Head(nodes) EXCEPT
              !.attr = IF @ \in KEEP_ATTRS THEN @ ELSE "",
              !.kids = _strip_attributes(@)]>>
         \o _strip_attributes(Tail(nodes))
    ELSE <<Head(nodes)>> \o _strip_attributes(Tail(nodes))

RECURSIVE HasText(_)
\* tag.get_text(strip=True) is not empty
HasText(node) ==
    IF node.k = "el"
    THEN \E i \in 1..Len(node.kids) : HasText(node.kids[i])
    ELSE node.k # "sp" /\ node.n > 0

RECURSIVE EmptyPass(_)
\* lines 116-122: one round over soup.find_all(True); decompose() takes the
\* element away with everything it contains
EmptyPass(nodes) ==
    IF nodes = <<>> THEN <<>>
    ELSE IF Head(nodes).k # "el"
    THEN <<Head(nodes)>> \o EmptyPass(Tail(nodes))
    ELSE IF Head(nodes).name \notin PRESERVE_EMPTY /\ ~HasText(Head(nodes))
    THEN EmptyPass(Tail(nodes))
    ELSE <<[Head(nodes) EXCEPT !.kids = EmptyPass(@)]>>
         \o EmptyPass(Tail(nodes))

RECURSIVE EmptyRounds(_, _)
\* lines 114-124: at most rounds rounds, until a round changes nothing
EmptyRounds(soup, rounds) ==
    IF rounds = 0 \/ EmptyPass(soup) = soup THEN soup
    ELSE EmptyRounds(EmptyPass(soup), rounds - 1)

_remove_empty_elements(soup) == EmptyRounds(soup, 3)

\* leading and trailing spaces removed
Strip(s) ==
    LET a == IF s # <<>> /\ s[1].k = "sp" THEN Tail(s) ELSE s
    IN IF a # <<>> /\ a[Len(a)].k = "sp" THEN SubSeq(a, 1, Len(a) - 1) ELSE a

\* lines 127-135 on a string without newline or tab: a run of spaces
\* becomes one space (130), 132 matches nothing, 134 rewrites one space
\* between two tags to itself, strip()
_collapse_whitespace(s) ==
    Strip([i \in 1..Len(Norm(s)) |->
             IF Norm(s)[i].k = "sp" THEN Sp(1) ELSE Norm(s)[i]])

RECURSIVE FindAll(_, _)
\* soup.find_all(names): the elements in document order
FindAll(nodes, names) ==
    IF nodes = <<>> THEN <<>>
    ELSE IF Head(nodes).k # "el" THEN FindAll(Tail(nodes), names)
    ELSE (IF Head(nodes).name \in names THEN <<Head(nodes)>> ELSE <<>>)
         \o FindAll(Head(nodes).kids, names)
         \o FindAll(Tail(nodes), names)

RECURSIVE KwCount(_)
\* the matches of PRICING_KEYWORDS in a string
KwCount(s) ==
    IF s = <<>> THEN 0
    ELSE (IF Head(s).k = "kw" THEN 1 ELSE 0) + KwCount(Tail(s))

\* lines 157-160: str(section) of the sections whose text has a keyword
PricingSections(soup) ==
    LET all == FindAll(soup, {"section", "div", "main", "article"})
        hit == FilterSeq(all, {n \in Range(all) : KwCount(Str(<<n>>)) > 0})
    IN [i \in 1..Len(hit) |-> Str(<<hit[i]>>)]

RECURSIVE Join(_)
\* " ".join(parts)
Join(parts) ==
    IF parts = <<>> THEN <<>>
    ELSE IF Len(parts) = 1 THEN parts[1]
    ELSE parts[1] \o <<Sp(1)>> \o Join(Tail(parts))

\* lines 171-174: (density, sec_html) > (density, sec_html), density being
\* matches / max(len(sec_html), 1)
ScoredGreater(a, b) ==
    LET da == KwCount(a) * Max2(StrLen(b), 1)
        db == KwCount(b) * Max2(StrLen(a), 1)
    IN da > db \/ (da = db /\ StrGreater(a, b))

RECURSIVE InsertScored(_, _)
InsertScored(sorted, a) ==
    IF sorted = <<>> THEN <<a>>
    ELSE IF ScoredGreater(a, Head(sorted)) THEN <<a>> \o sorted
    ELSE <<Head(sorted)>> \o InsertScored(Tail(sorted), a)

RECURSIVE SortScored(_)
\* line 174: scored.sort(reverse=True)
SortScored(secs) ==
    IF secs = <<>> THEN <<>>
    ELSE InsertScored(SortScored(SubSeq(secs, 1, Len(secs) - 1)),
                      secs[Len(secs)])

RECURSIVE TakeWhileFits(_, _)
\* lines 176-182: sections are taken until one does not fit
TakeWhileFits(scored, total_len) ==
    IF scored = <<>> THEN <<>>
    ELSE IF total_len + StrLen(Head(scored)) > MAX_OUTPUT_CHARS THEN <<>>
    ELSE <<Head(scored)>>
         \o TakeWhileFits(Tail(scored), total_len + StrLen(Head(scored)))

RECURSIVE Prefix(_, _)
\* s[:n]
Prefix(s, n) ==
    IF s = <<>> \/ n <= 0 THEN <<>>
    ELSE IF TokLen(Head(s)) <= n
    THEN <<Head(s)>> \o Prefix(Tail(s), n - TokLen(Head(s)))
    ELSE IF IsRun(Head(s)) THEN <<[Head(s) EXCEPT !.n = n]>>
    ELSE <<Cut(Head(s), n)>>

\* a strategy 1 that takes the main element whatever its size
MainCandidateOfAnySize(soup) ==
    LET mains == FindAll(soup, {"main"})
    IN IF mains = <<>> THEN None
       ELSE Some(_collapse_whitespace(Str(<<mains[1]>>)))

\* lines 148-153: strategy 1, the candidate or None
MainCandidate(soup) ==
    LET mains == FindAll(soup, {"main"})
    IN IF mains = <<>> THEN None
       ELSE IF StrLen(_collapse_whitespace(Str(<<mains[1]>>)))
               <= MAX_OUTPUT_CHARS
       THEN Some(_collapse_whitespace(Str(<<mains[1]>>)))
       ELSE None

\* lines 162-166: all pricing sections, if there are any and they fit
SectionsCandidate(secs) ==
    IF secs # <<>>
       /\ StrLen(_collapse_whitespace(Join(secs))) <= MAX_OUTPUT_CHARS
    THEN Some(_collapse_whitespace(Join(secs)))
    ELSE None

\* lines 169-187: the sections of highest density, if the first one fits
DensityCandidate(secs) ==
    IF TakeWhileFits(SortScored(secs), 0) # <<>>
    THEN Some(_collapse_whitespace(Join(TakeWhileFits(SortScored(secs), 0))))
    ELSE None

\* lines 138-191
_truncate(soup, cleaned) ==
    IF MainCandidate(soup) # None THEN TheValue(MainCandidate(soup))
    ELSE IF SectionsCandidate(PricingSections(soup)) # None
    THEN TheValue(SectionsCandidate(PricingSections(soup)))
    ELSE IF DensityCandidate(PricingSections(soup)) # None
    THEN TheValue(DensityCandidate(PricingSections(soup)))
    ELSE Prefix(cleaned, MAX_OUTPUT_CHARS)

\* lines 62-74: the tree after passes 1 to 3, and after pass 4
Passes123(raw_html) ==
    _strip_attributes(_remove_structural_noise(_remove_noise_tags(
        BeautifulSoup(raw_html))))
Passes(raw_html) == _remove_empty_elements(Passes123(raw_html))

\* lines 77-83 on the tree the passes leave
Finish(soup, cleaned) ==
    IF StrLen(cleaned) > MAX_OUTPUT_CHARS THEN _truncate(soup, cleaned)
    ELSE cleaned

\* lines 52-83
clean_html(raw_html) ==
    Finish(Passes(raw_html), _collapse_whitespace(Str(Passes(raw_html))))

(***************************************************************************)
(* SpecReducer: clean_html, pass by pass and strategy by strategy, on      *)
(* every markup string of the bounded domain, and then once more on its    *)
(* own output.                                                             *)
(***************************************************************************)
\* the pieces a page of the domain is put together from
Blocks ==
    {<<Text(1), Sp(2)>>,
     <<Text(19995)>>,
     <<Open("div", "class"), Kw, Text(1), Close("div")>>,
     <<Open("div", ""), Kw, Text(9988), Close("div")>>,
     <<Open("div", ""), Kw, Text(9988)>>,
     <<Open("main", "title"), Kw, Sp(2), Text(1), Close("main")>>,
     <<Open("main", "")>>,
     <<Open("script", ""), Text(1), Close("script"),
       Open("nav", ""), Kw, Close("nav")>>,
     <<Open("table", ""), Open("td", ""), Open("span", ""), Close("span"),
       Close("td"), Close("table")>>,
     <<Open("div", "")>>}

RECURSIVE Concat(_)
Concat(blocks) ==
    IF blocks = <<>> THEN <<>> ELSE Head(blocks) \o Concat(Tail(blocks))

\* the reduced page does not end in the middle of a tag
CutIsClean(raw_html) ==
    \A t \in Range(clean_html(raw_html)) : t.k \notin {"cut_open", "cut_close"}

Markups ==
    {m \in {Norm(Concat(bs)) : bs \in SeqsUpTo(Blocks, MaxBlocks)} :
        CutIsClean(m)}

ReducerInit ==
    /\ red_pc = "call" /\ red_in \in Markups
    /\ red_tree = <<>> /\ red_soup = <<>> /\ red_cleaned = <<>>
    /\ red_strategy = "" /\ red_out = None /\ red_again = None
    /\ GateIdle /\ ClientIdle /\ CascadeIdle /\ OrchIdle
    /\ ProxyIdle /\ ScrapeIdle

\* lines 62-71: parsing and passes 1 to 3
ParseAndStrip ==
    /\ red_pc = "call"
    /\ red_tree' = Passes123(red_in)
    /\ red_pc' = "pass4"
    /\ UNCHANGED <<red_in, red_soup, red_cleaned, red_strategy, red_out, red_again,
                   gateVars, clientVars, cascadeVars, orchVars,
                   proxyVars, scrapeVars>>

\* lines 74-83: pass 4, pass 5 and the size test
RemoveEmptyAndCollapse ==
    /\ red_pc = "pass4"
    /\ red_soup' = _remove_empty_elements(red_tree)
    /\ red_cleaned' = _collapse_whitespace(Str(red_soup'))
    /\ IF StrLen(red_cleaned') > MAX_OUTPUT_CHARS
       THEN red_pc' = "strategy1" /\ UNCHANGED <<red_strategy, red_out>>
       ELSE /\ red_pc' = "returned" /\ red_strategy' = "fits"
            /\ red_out' = Some(red_cleaned')
    /\ UNCHANGED <<red_in, red_tree, red_again,
                   gateVars, clientVars, cascadeVars, orchVars,
                   proxyVars, scrapeVars>>

\* lines 148-153
TruncateMain ==
    /\ red_pc = "strategy1"
    /\ IF MainCandidate(red_soup) # None
       THEN /\ red_pc' = "returned" /\ red_strategy' = "main"
            /\ red_out' = MainCandidate(red_soup)
       ELSE red_pc' = "strategy2" /\ UNCHANGED <<red_strategy, red_out>>
    /\ UNCHANGED <<red_in, red_tree, red_soup, red_cleaned, red_again,
                   gateVars, clientVars, cascadeVars, orchVars,
                   proxyVars, scrapeVars>>

\* lines 156-166
TruncateSections ==
    /\ red_pc = "strategy2"
    /\ IF SectionsCandidate(PricingSections(red_soup)) # None
       THEN /\ red_pc' = "returned" /\ red_strategy' = "sections"
            /\ red_out' = SectionsCandidate(PricingSections(red_soup))
       ELSE /\ red_pc' = IF PricingSections(red_soup) # <<>> THEN "density"
                         ELSE "strategy3"
            /\ UNCHANGED <<red_strategy, red_out>>
    /\ UNCHANGED <<red_in, red_tree, red_soup, red_cleaned, red_again,
                   gateVars, clientVars, cascadeVars, orchVars,
                   proxyVars, scrapeVars>>

\* lines 169-187
TruncateByDensity ==
    /\ red_pc = "density"
    /\ IF DensityCandidate(PricingSections(red_soup)) # None
       THEN /\ red_pc' = "returned" /\ red_strategy' = "density"
            /\ red_out' = DensityCandidate(PricingSections(red_soup))
       ELSE red_pc' = "strategy3" /\ UNCHANGED <<red_strategy, red_out>>
    /\ UNCHANGED <<red_in, red_tree, red_soup, red_cleaned, red_again,
                   gateVars, clientVars, cascadeVars, orchVars,
                   proxyVars, scrapeVars>>

\* lines 190-191
HardCut ==
    /\ red_pc = "strategy3"
    /\ red_pc' = "returned" /\ red_strategy' = "cut"
    /\ red_out' = Some(Prefix(red_cleaned, MAX_OUTPUT_CHARS))
    /\ UNCHANGED <<red_in, red_tree, red_soup, red_cleaned, red_again,
                   gateVars, clientVars, cascadeVars, orchVars,
                   proxyVars, scrapeVars>>

\* the reducer applied to its own output
Reapply ==
    /\ red_pc = "returned"
    /\ red_again' = Some(clean_html(TheValue(red_out)))
    /\ red_pc' = "reapplied"
    /\ UNCHANGED <<red_in, red_tree, red_soup, red_cleaned, red_strategy, red_out,
                   gateVars, clientVars, cascadeVars, orchVars,
                   proxyVars, scrapeVars>>

ReducerNext ==
    \/ ParseAndStrip \/ RemoveEmptyAndCollapse \/ TruncateMain
    \/ TruncateSections \/ TruncateByDensity \/ HardCut \/ Reapply

SpecReducer == ReducerInit /\ [][ReducerNext]_vars

Reduced == red_pc \in {"returned", "reapplied"}

\* C21: the reduced text is never longer than the larger of the budget and
\* the input, and every result of a truncation is within the budget
C21_SizeBound ==
    Reduced =>
        /\ StrLen(TheValue(red_out))
             <= Max2(MAX_OUTPUT_CHARS, StrLen(red_in))
        /\ red_strategy # "fits"
             => StrLen(TheValue(red_out)) <= MAX_OUTPUT_CHARS

\* the first main element of the tree, collapsed, is within the budget
MainFits ==
    /\ FindAll(red_soup, {"main"}) # <<>>
    /\ StrLen(_collapse_whitespace(Str(<<FindAll(red_soup, {"main"})[1]>>)))
         <= MAX_OUTPUT_CHARS

RECURSIVE TotalLen(_)
TotalLen(parts) ==
    IF parts = <<>> THEN 0 ELSE StrLen(Head(parts)) + TotalLen(Tail(parts))

\* secs is in descending order of keyword density
DescendingDensity(secs) ==
    \A i \in 1..Len(secs) - 1 :
        KwCount(secs[i]) * StrLen(secs[i + 1])
            >= KwCount(secs[i + 1]) * StrLen(secs[i])

\* the k densest sections are within the budget, one more is not
FitsUpTo(secs, k) ==
    /\ TotalLen(SubSeq(secs, 1, k)) <= MAX_OUTPUT_CHARS
    /\ k < Len(secs) => TotalLen(SubSeq(secs, 1, k + 1)) > MAX_OUTPUT_CHARS

\* C22: an oversized text is replaced by the main region if the first main
\* element fits the budget; otherwise by all pricing sections if they fit
\* together, else by the densest sections in descending density for as long
\* as their lengths add up to no more than the budget; and by its first
\* MAX_OUTPUT_CHARS characters only if neither gives a result
C22_TruncationPriority ==
    Reduced /\ red_strategy # "fits" =>
        LET secs == PricingSections(red_soup)
            all == _collapse_whitespace(Join(secs))
            byDensity == SortScored(secs)
        IN /\ StrLen(red_cleaned) > MAX_OUTPUT_CHARS
           /\ DescendingDensity(byDensity)
           /\ IF MainFits
              THEN /\ red_strategy = "main"
                   /\ TheValue(red_out) = _collapse_whitespace(
                          Str(<<FindAll(red_soup, {"main"})[1]>>))
              ELSE IF secs # <<>> /\ StrLen(all) <= MAX_OUTPUT_CHARS
              THEN red_strategy = "sections" /\ TheValue(red_out) = all
              ELSE IF secs # <<>>
                      /\ StrLen(byDensity[1]) <= MAX_OUTPUT_CHARS
              THEN /\ red_strategy = "density"
                   /\ \E k \in 1..Len(secs) :
                         /\ FitsUpTo(byDensity, k)
                         /\ TheValue(red_out) = _collapse_whitespace(
                                Join(SubSeq(byDensity, 1, k)))
              ELSE /\ red_strategy = "cut"
                   /\ TheValue(red_out)
                        = Prefix(red_cleaned, MAX_OUTPUT_CHARS)

\* a main element that is too large, and fewer sections taken than found
C22_Witness ==
    /\ Reduced /\ red_strategy = "density"
    /\ FindAll(red_soup, {"main"}) # <<>> /\ ~MainFits
    /\ \E k \in 1..Len(PricingSections(red_soup)) - 1 :
          TheValue(red_out) = _collapse_whitespace(
              Join(SubSeq(SortScored(PricingSections(red_soup)), 1, k)))

TableTags == {"table", "thead", "tbody", "tr", "td", "th"}

Pass4Done == red_pc \notin {"call", "pass4"}

\* C23: pass 4 keeps every table-structural element, with or without
\* text, wherever it is nested, and leaves no other element without text
C23_EmptyPassKeepsTables ==
    Pass4Done =>
        /\ \A name \in TableTags :
              Len(FindAll(red_soup, {name})) = Len(FindAll(red_tree, {name}))
        /\ \A name \in {"div", "main", "p", "span"} :
              \A el \in Range(FindAll(red_soup, {name})) : HasText(el)

\* C24: the reducer applied to its own output returns that output
C24_Idempotent == red_pc = "reapplied" => red_again = red_out

(***************************************************************************)
(* v2/extractor.py : the cascade                                           *)
(***************************************************************************)
\* Page markup given to the cascade: whitespace, an element the reducer
\* removes (script), and an element that carries pricing text.
Blank == <<Sp(1)>>
ScriptFragment == <<Open("script", ""), Text(7), Close("script")>>
PricingFragment ==
    <<Open("main", ""), Text(3), Sp(1), Kw, Text(8), Close("main")>>

HtmlSamples ==
    {<<>>, Blank, ScriptFragment, Blank \o ScriptFragment,
     PricingFragment, ScriptFragment \o PricingFragment}

\* str.strip() leaves nothing
IsBlank(text) == \A i \in 1..Len(text) : text[i].k = "sp"

ExtractionResult(tier, extraction) ==
    [tier |-> tier, extraction |-> extraction,
     company |-> "Acme", country |-> "us"]

\* the canonical result of an exhausted cascade
ExhaustedResult ==
    ExtractionResult("none",
        PricingExtraction("UNKNOWN", "?", <<>>, "low",
            Some("All extraction tiers exhausted without result")))

\* lines 111-120: the gate on the outcome of the client call
Tier2Decide(out) ==
    IF out.raised THEN out
    ELSE IF _is_good(out.value) THEN Ret(Some(out.value))
    ELSE Ret(None)

\* _try_tier_2 as a function of the markup and of how the client call goes:
\* Ret(None) to fall through, Ret(Some(result)) to resolve, or the exception
_try_tier_2(text, env, resp) ==
    IF text = <<>> \/ IsBlank(text) THEN Ret(None)
    ELSE IF IsBlank(clean_html(text)) THEN Ret(None)
    ELSE Tier2Decide(extract_pricing(env, resp))

\* lines 135-137: whatever the client returns is the result
Tier4Accept(out) == IF out.raised THEN out ELSE Ret(Some(out.value))

_try_tier_4(path, env, resp) ==
    IF path = "" THEN Ret(None)
    ELSE IF ~PathExists(path) THEN Ret(None)
    ELSE Tier4Accept(extract_pricing_from_screenshot(path, env, resp))

\* lines 66-91 on the outcomes t2 of _try_tier_2 and t4 of _try_tier_4
CascadeReturn(t2, t4) ==
    IF t2.raised THEN t2
    ELSE IF t2.value # None
    THEN Ret(ExtractionResult("tier_2", TheValue(t2.value)))
    ELSE IF t4.raised THEN t4
    ELSE IF t4.value # None
    THEN Ret(ExtractionResult("tier_4", TheValue(t4.value)))
    ELSE Ret(ExhaustedResult)

\* extract_with_fallback when the tier-2 call meets resp2 and the tier-4
\* call meets resp4
extract_with_fallback(text, path, env, resp2, resp4) ==
    CascadeReturn(_try_tier_2(text, env, resp2), _try_tier_4(path, env, resp4))

(***************************************************************************)
(* SpecCascade: one run of extract_with_fallback, statement by statement.  *)
(* casc_pc is the position in the run; tier2_result and tier4_result are   *)
(* the local `result` of _try_tier_2 and _try_tier_4; the three counters   *)
(* count the calls of clean_html, extract_pricing(input_type="html") and   *)
(* extract_pricing_from_screenshot.                                        *)
(***************************************************************************)
\* the service behaviours drawn for the calls of a cascade run: those of
\* ServiceResponses whose payload has both currency fields and a confidence
\* that is medium, low or missing
CascadeResponses ==
    {r \in ServiceResponses :
        r.kind = "message" /\ ToolInput(r.content) # None =>
            /\ Len(r.content) = 1
            /\ LET d == TheValue(ToolInput(r.content)).obj
               IN /\ "currency_code" \in DOMAIN d /\ IsStr(d["currency_code"])
                  /\ "currency_symbol" \in DOMAIN d
                  /\ "extraction_confidence" \in DOMAIN d
                        => d["extraction_confidence"].str \in {"medium", "low"}}

\* the screenshot paths drawn for a cascade run
CascadeScreenshots == ScreenshotPaths \ {"tall.png"}

CascadeInit ==
    /\ casc_pc = "tier1"
    /\ html \in HtmlSamples
    /\ screenshot_path \in CascadeScreenshots
    /\ casc_env \in ClientEnvs
    /\ tier2_state = "pending" /\ tier2_result = None
    /\ tier4_state = "pending" /\ tier4_result = None
    /\ reducer_calls = 0 /\ html_calls = 0 /\ vision_calls = 0
    /\ casc_ret = None
    /\ GateIdle /\ ClientIdle /\ OrchIdle /\ UnitsIdle

\* line 63: tier 1 is a stub
Tier1Skip ==
    /\ casc_pc = "tier1"
    /\ casc_pc' = "tier2"
    /\ UNCHANGED <<html, screenshot_path, casc_env, tier2_state, tier2_result,
                   tier4_state, tier4_result, reducer_calls, html_calls,
                   vision_calls, casc_ret, gateVars, clientVars, orchVars,
                   unitVars>>

\* lines 96-98: no markup, tier 2 returns None without calling anything
Tier2SkipNoHtml ==
    /\ casc_pc = "tier2"
    /\ html = <<>> \/ IsBlank(html)
    /\ tier2_state' = "skipped"
    /\ casc_pc' = "tier3"
    /\ UNCHANGED <<html, screenshot_path, casc_env, tier2_result,
                   tier4_state, tier4_result, reducer_calls, html_calls,
                   vision_calls, casc_ret, gateVars, clientVars, orchVars,
                   unitVars>>

\* lines 100-106: the reducer runs; empty reduced text falls through
Tier2Clean ==
    /\ casc_pc = "tier2"
    /\ ~(html = <<>> \/ IsBlank(html))
    /\ reducer_calls' = reducer_calls + 1
    /\ IF IsBlank(clean_html(html))
       THEN tier2_state' = "skipped" /\ casc_pc' = "tier3"
       ELSE tier2_state' = tier2_state /\ casc_pc' = "tier2_call"
    /\ UNCHANGED <<html, screenshot_path, casc_env, tier2_result,
                   tier4_state, tier4_result, html_calls,
                   vision_calls, casc_ret, gateVars, clientVars, orchVars,
                   unitVars>>

\* line 109: the client call of tier 2
Tier2CallLLM ==
    /\ casc_pc = "tier2_call"
    /\ html_calls' = html_calls + 1
    /\ \E resp \in CascadeResponses :
          LET out == extract_pricing(casc_env, resp)
          IN IF out.raised
             THEN casc_pc' = "raised" /\ tier2_result' = tier2_result
             ELSE casc_pc' = "tier2_gate" /\ tier2_result' = Some(out.value)
    /\ UNCHANGED <<html, screenshot_path, casc_env, tier2_state,
                   tier4_state, tier4_result, reducer_calls,
                   vision_calls, casc_ret, gateVars, clientVars, orchVars,
                   unitVars>>

\* a tier 2 that goes on to tier 3 even when its result passed the gate
Tier2GateNoStop ==
    /\ casc_pc = "tier2_gate"
    /\ tier2_state' = IF _is_good(TheValue(tier2_result)) THEN "pass" ELSE "fail"
    /\ casc_pc' = "tier3"
    /\ UNCHANGED <<html, screenshot_path, casc_env, tier2_result,
                   tier4_state, tier4_result, reducer_calls, html_calls,
                   vision_calls, casc_ret, gateVars, clientVars, orchVars,
                   unitVars>>

\* a tier 2 whose gate miss ends the cascade instead of falling through
Tier2GateFailStops ==
    /\ casc_pc = "tier2_gate"
    /\ IF _is_good(TheValue(tier2_result))
       THEN /\ tier2_state' = "pass"
            /\ casc_ret' = Some(ExtractionResult("tier_2", TheValue(tier2_result)))
            /\ casc_pc' = "done"
       ELSE /\ tier2_state' = "fail"
            /\ casc_ret' = casc_ret
            /\ casc_pc' = "exhausted"
    /\ UNCHANGED <<html, screenshot_path, casc_env, tier2_result,
                   tier4_state, tier4_result, reducer_calls, html_calls,
                   vision_calls, gateVars, clientVars, orchVars, unitVars>>

\* a tier 2 that returns its result whatever the gate says
Tier2GateAcceptsAll ==
    /\ casc_pc = "tier2_gate"
    /\ tier2_state' = IF _is_good(TheValue(tier2_result)) THEN "pass" ELSE "fail"
    /\ casc_ret' = Some(ExtractionResult("tier_2", TheValue(tier2_result)))
    /\ casc_pc' = "done"
    /\ UNCHANGED <<html, screenshot_path, casc_env, tier2_result,
                   tier4_state, tier4_result, reducer_calls, html_calls,
                   vision_calls, gateVars, clientVars, orchVars, unitVars>>

\* lines 111-120 and 67-68: the gate decision; on a pass the cascade returns
Tier2Gate ==
    /\ casc_pc = "tier2_gate"
    /\ IF _is_good(TheValue(tier2_result))
       THEN /\ tier2_state' = "pass"
            /\ casc_ret' = Some(ExtractionResult("tier_2", TheValue(tier2_result)))
            /\ casc_pc' = "done"
       ELSE /\ tier2_state' = "fail"
            /\ casc_ret' = casc_ret
            /\ casc_pc' = "tier3"
    /\ UNCHANGED <<html, screenshot_path, casc_env, tier2_result,
                   tier4_state, tier4_result, reducer_calls, html_calls,
                   vision_calls, gateVars, clientVars, orchVars, unitVars>>

\* line 71: tier 3 is a stub
Tier3Skip ==
    /\ casc_pc = "tier3"
    /\ casc_pc' = "tier4"
    /\ UNCHANGED <<html, screenshot_path, casc_env, tier2_state, tier2_result,
                   tier4_state, tier4_result, reducer_calls, html_calls,
                   vision_calls, casc_ret, gateVars, clientVars, orchVars,
                   unitVars>>

\* a tier 4 that fails on a path that names no file
Tier4SkipRaises ==
    /\ casc_pc = "tier4"
    /\ screenshot_path = "" \/ ~PathExists(screenshot_path)
    /\ IF screenshot_path = ""
       THEN tier4_state' = "skipped" /\ casc_pc' = "exhausted"
       ELSE tier4_state' = tier4_state /\ casc_pc' = "raised"
    /\ UNCHANGED <<html, screenshot_path, casc_env, tier2_state, tier2_result,
                   tier4_result, reducer_calls, html_calls,
                   vision_calls, casc_ret, gateVars, clientVars, orchVars,
                   unitVars>>

\* lines 125-132: no screenshot path, or no such file
Tier4Skip ==
    /\ casc_pc = "tier4"
    /\ screenshot_path = "" \/ ~PathExists(screenshot_path)
    /\ tier4_state' = "skipped"
    /\ casc_pc' = "exhausted"
    /\ UNCHANGED <<html, screenshot_path, casc_env, tier2_state, tier2_result,
                   tier4_result, reducer_calls, html_calls,
                   vision_calls, casc_ret, gateVars, clientVars, orchVars,
                   unitVars>>

\* a tier 4 that puts its result through the gate like tier 2
Tier4VisionGated ==
    /\ casc_pc = "tier4"
    /\ ~(screenshot_path = "" \/ ~PathExists(screenshot_path))
    /\ vision_calls' = vision_calls + 1
    /\ \E resp \in CascadeResponses :
          LET out == extract_pricing_from_screenshot(screenshot_path,
                                                     casc_env, resp)
          IN IF out.raised
             THEN /\ casc_pc' = "raised"
                  /\ UNCHANGED <<tier4_state, tier4_result, casc_ret>>
             ELSE /\ tier4_state' = "returned"
                  /\ tier4_result' = Some(out.value)
                  /\ IF _is_good(out.value)
                     THEN /\ casc_ret' = Some(ExtractionResult("tier_4", out.value))
                          /\ casc_pc' = "done"
                     ELSE /\ casc_ret' = casc_ret
                          /\ casc_pc' = "exhausted"
    /\ UNCHANGED <<html, screenshot_path, casc_env, tier2_state, tier2_result,
                   reducer_calls, html_calls, gateVars, clientVars, orchVars,
                   unitVars>>

\* lines 134-137 and 75-76: the vision call; its result is returned as is
Tier4Vision ==
    /\ casc_pc = "tier4"
    /\ ~(screenshot_path = "" \/ ~PathExists(screenshot_path))
    /\ vision_calls' = vision_calls + 1
    /\ \E resp \in CascadeResponses :
          LET out == extract_pricing_from_screenshot(screenshot_path,
                                                     casc_env, resp)
          IN IF out.raised
             THEN /\ casc_pc' = "raised"
                  /\ UNCHANGED <<tier4_state, tier4_result, casc_ret>>
             ELSE /\ tier4_state' = "returned"
                  /\ tier4_result' = Some(out.value)
                  /\ casc_ret' = Some(ExtractionResult("tier_4", out.value))
                  /\ casc_pc' = "done"
    /\ UNCHANGED <<html, screenshot_path, casc_env, tier2_state, tier2_result,
                   reducer_calls, html_calls, gateVars, clientVars, orchVars,
                   unitVars>>

\* an exhausted cascade that hands back the last attempted tier's result
ReturnLastAttempted ==
    /\ casc_pc = "exhausted"
    /\ casc_ret' = IF tier2_result # None
                   THEN Some(ExtractionResult("tier_2", TheValue(tier2_result)))
                   ELSE Some(ExhaustedResult)
    /\ casc_pc' = "done"
    /\ UNCHANGED <<html, screenshot_path, casc_env, tier2_state, tier2_result,
                   tier4_state, tier4_result, reducer_calls, html_calls,
                   vision_calls, gateVars, clientVars, orchVars, unitVars>>

\* lines 78-91: all tiers exhausted
ReturnExhausted ==
    /\ casc_pc = "exhausted"
    /\ casc_ret' = Some(ExhaustedResult)
    /\ casc_pc' = "done"
    /\ UNCHANGED <<html, screenshot_path, casc_env, tier2_state, tier2_result,
                   tier4_state, tier4_result, reducer_calls, html_calls,
                   vision_calls, gateVars, clientVars, orchVars, unitVars>>

CascadeNext ==
    \/ Tier1Skip
    \/ Tier2SkipNoHtml
    \/ Tier2Clean
    \/ Tier2CallLLM
    \/ Tier2Gate
    \/ Tier3Skip
    \/ Tier4Skip
    \/ Tier4Vision
    \/ ReturnExhausted

SpecCascade == CascadeInit /\ [][CascadeNext]_vars

\* C2: the image-tier call is never started before tier 2 was skipped or
\* had its gate decision; and when tier 2's result passes the gate the
\* cascade has stopped, returned that result tagged tier_2, and the
\* image-tier client was called zero times.
C2_TierOrderAndPrecedence ==
    /\ vision_calls > 0 => tier2_state \in {"skipped", "fail"}
    /\ casc_pc \in {"tier3", "tier4", "exhausted"}
          => tier2_state \in {"skipped", "fail"}
    /\ tier2_state = "pass" =>
          /\ casc_pc = "done"
          /\ casc_ret = Some(ExtractionResult("tier_2", TheValue(tier2_result)))
          /\ vision_calls = 0

\* tier 2 resolved although a readable screenshot was at hand
C2_Witness ==
    /\ tier2_state = "pass" /\ casc_pc = "done"
    /\ screenshot_path = "shot.png"
    /\ TheValue(casc_ret).tier = "tier_2"

\* C3 as stated: after every tier was skipped or failed the gate, the
\* cascade returns the raw result of the last attempted tier if a tier was
\* attempted, and the canonical "none" result only if none was.
C3_LastAttemptedReturned ==
    (casc_pc = "done" /\ tier2_state # "pass" /\ tier4_state = "skipped") =>
        IF tier2_result # None
        THEN TheValue(casc_ret).extraction = TheValue(tier2_result)
        ELSE casc_ret = Some(ExhaustedResult)

\* C3 amended: the cascade returns the canonical "none" result exactly when
\* tier 4 was skipped and tier 2 was skipped or failed the gate, also when
\* tier 2 was attempted: a tier-2 result that failed the gate is never
\* returned, whatever plans it holds.
C3_ExhaustionReturnsNone ==
    casc_pc = "done" =>
        /\ (tier4_state = "skipped" /\ tier2_state \in {"skipped", "fail"})
              <=> TheValue(casc_ret).tier = "none"
        /\ TheValue(casc_ret).tier = "none" => casc_ret = Some(ExhaustedResult)
        /\ tier2_state = "fail" => TheValue(casc_ret).tier # "tier_2"

\* tier 2 was attempted and produced plans, and "none" was returned
C3_Witness ==
    /\ casc_pc = "done" /\ tier2_state = "fail"
    /\ tier2_result # None /\ TheValue(tier2_result).plans # <<>>
    /\ tier4_state = "skipped"
    /\ casc_ret = Some(ExhaustedResult)

\* C9: whenever tier 4 runs and the client returns, the cascade returns
\* exactly that result tagged tier_4, not the canonical "none" result,
\* whatever its confidence and plan list.
C9_ImageTierNotGated ==
    tier4_result # None =>
        /\ casc_pc = "done"
        /\ casc_ret = Some(ExtractionResult("tier_4", TheValue(tier4_result)))
        /\ casc_ret # Some(ExhaustedResult)

\* the image tier returned a low-confidence result without plans
C9_Witness ==
    /\ casc_pc = "done" /\ tier4_state = "returned"
    /\ TheValue(tier4_result).extraction_confidence = "low"
    /\ TheValue(tier4_result).plans = <<>>
    /\ TheValue(casc_ret).tier = "tier_4"

\* the cascade was given a screenshot path that names a file
ScreenshotAvailable == screenshot_path # "" /\ PathExists(screenshot_path)

C15_SkipIsNoOp ==
    /\ (/\ casc_pc \in {"tier2_call", "tier2_gate", "tier3", "tier4",
                         "exhausted", "done", "raised"}
        /\ (html = <<>> \/ IsBlank(html)))
          => /\ tier2_state = "skipped"
             /\ reducer_calls = 0 /\ html_calls = 0
    /\ (/\ casc_pc \in {"exhausted", "done"} /\ tier2_state # "pass"
        /\ ~ScreenshotAvailable)
          => tier4_state = "skipped" /\ vision_calls = 0
    /\ tier2_state = "skipped" => tier2_result = None /\ html_calls = 0
    /\ tier4_state = "skipped" => tier4_result = None /\ vision_calls = 0
    /\ casc_pc = "raised" => html_calls + vision_calls > 0
    /\ casc_ret # None => TheValue(casc_ret).tier \in {"tier_2", "tier_4", "none"}
    /\ (casc_pc = "done" /\ tier2_state = "skipped" /\ tier4_state = "skipped")
          => /\ casc_ret = Some(ExhaustedResult)
             /\ html_calls = 0 /\ vision_calls = 0

\* whitespace-only markup and a path to a missing file: nothing was called
C15_Witness ==
    /\ casc_pc = "done"
    /\ html = Blank /\ screenshot_path = "missing.png"
    /\ tier2_state = "skipped" /\ tier4_state = "skipped"
    /\ reducer_calls = 0 /\ html_calls = 0 /\ vision_calls = 0
    /\ casc_ret = Some(ExhaustedResult)

\* C16: a returned result whose confidence is low or whose plan list is
\* empty did not pass the gate and comes from tier 4 or from exhaustion,
\* after tier 2 was skipped or failed the gate; a result tagged tier_2 has
\* confidence not low and a non-empty plan list that satisfies the gate.
C16_ResultInvariant ==
    casc_pc = "done" =>
        LET r == TheValue(casc_ret)
            P == Range(r.extraction.plans)
            Paid == {p \in P : ~p.is_free_tier /\ ~p.is_contact_sales}
        IN /\ (\/ r.extraction.extraction_confidence = "low"
               \/ r.extraction.plans = <<>>)
                 => /\ r.tier \in {"tier_4", "none"}
                    /\ tier2_state \in {"skipped", "fail"}
           /\ r.tier = "tier_2" =>
                 /\ tier2_state = "pass"
                 /\ r.extraction.extraction_confidence \in {"high", "medium"}
                 /\ r.extraction.plans # <<>>
                 /\ \E p \in P : \/ \E k \in PriceFields : p[k] # None
                                 \/ p.is_free_tier \/ p.is_contact_sales
                 /\ (Paid # {} =>
                       \E p \in Paid : \E k \in PriceFields : p[k] # None)

\* tier 2 failed the gate and tier 4's low-confidence result, which holds
\* plans, was returned
C16_Witness ==
    /\ casc_pc = "done" /\ tier2_state = "fail"
    /\ TheValue(casc_ret).tier = "tier_4"
    /\ TheValue(casc_ret).extraction.extraction_confidence = "low"
    /\ TheValue(casc_ret).extraction.plans # <<>>

\* the results of the client calls made so far in this cascade run that
\* _error_result built: those carrying an explanatory note
DegradedResults ==
    {x \in tier2_result \cup tier4_result : x.extraction_notes # None}

\* C28: every result built by _error_result has confidence low, whatever
\* plans it salvaged; at tier 2 such a result fails the quality gate, and
\* the cascade never returns it tagged tier_2.
C28_DegradedNeverResolvesTier2 ==
    /\ \A x \in DegradedResults : x.extraction_confidence = "low"
    /\ \A x \in tier2_result \cap DegradedResults :
          /\ ~_is_good(x)
          /\ tier2_state # "pass"
          /\ casc_ret # Some(ExtractionResult("tier_2", x))
    /\ \A r \in casc_ret :
          r.tier = "tier_2" => r.extraction.extraction_notes = None

\* tier 2 salvaged a priced plan from a schema-invalid payload that stated
\* confidence medium; the gate rejected the result and the cascade went on
C28_Witness ==
    /\ casc_pc = "done" /\ tier2_state = "fail"
    /\ \E x \in tier2_result :
          /\ x.extraction_notes = Some("Pydantic validation failed")
          /\ x.extraction_confidence = "low"
          /\ \E i \in 1..Len(x.plans) : HasNumericPrice(x.plans[i])
          /\ _is_good_ignoring_confidence(x)
    /\ \A r \in casc_ret : r.tier # "tier_2"

(***************************************************************************)
(* v2/registry.py and the collaborators of one work item                   *)
(***************************************************************************)
\* str.lower() and str.upper() on the country codes of the model
Lower(c) == CASE c = "US" -> "us" [] c = "DE" -> "de" [] OTHER -> c
Upper(c) == CASE c = "us" -> "US" [] c = "de" -> "DE" [] c = "fr" -> "FR"
              [] OTHER -> c

\* the codes a caller may request, and their lower-cased forms
CountryCodes == {"us", "DE", "fr"}
LowerCodes == {Lower(c) : c \in CountryCodes}

\* site configs of the registry: a, b and c are served in us and de, x in
\* de only; pricing_url is split at its {country} placeholder
SiteConfig(id, supported, url, strategy, fmt) ==
    [id |-> id, display_name |-> id, countries |-> supported,
     pricing_url |-> url, geo_strategy |-> strategy,
     url_country_format |-> fmt]

SiteA ==
    SiteConfig("a", <<"us", "de">>,
               <<"https://a.example/", "{country}", "/premium">>,
               "url_country_code", "iso_alpha2_lower")
SiteB ==
    SiteConfig("b", <<"us", "de">>,
               <<"https://b.example/", "{country}", "/plans">>,
               "url_country_code", "iso_alpha2_upper")
SiteC ==
    SiteConfig("c", <<"us", "de">>, <<"https://c.example/pricing">>,
               "geo_ip", "iso_alpha2_lower")
SiteX ==
    SiteConfig("x", <<"de">>, <<"https://x.example/pricing">>,
               "geo_ip", "iso_alpha2_lower")

\* a dict that lacks the display_name key scrape_one reads at line 84
SiteN ==
    [id |-> "n", countries |-> <<"de">>,
     pricing_url |-> <<"https://n.example/pricing">>,
     geo_strategy |-> "geo_ip", url_country_format |-> "iso_alpha2_lower"]

SiteIds == {"a", "b", "c", "x", "n"}

resolve_url(site_config, country) ==
    LET url == site_config.pricing_url
        sub == IF site_config.url_country_format = "iso_alpha2_upper"
               THEN Upper(country) ELSE Lower(country)
    IN IF site_config.geo_strategy = "url_country_code"
          /\ "{country}" \in Range(url)
       THEN [i \in 1..Len(url) |-> IF url[i] = "{country}" THEN sub ELSE url[i]]
       ELSE url

\* One world is the behaviour the collaborators of a work item show to it:
\* whether resolve_url and get_proxy_config raise, what _browser_phase
\* captures or raises, how the service answers the two cascade calls, and
\* whether model_dump raises.
Captured(text, path) == Ret([html |-> text, screenshot_path |-> path])

\* what the browser collaborators do for one item: whether launch_browser,
\* the two page.goto calls and capture_page raise, and the page captured
BrowserRun(launch, goto1, goto2, capture, text, path) ==
    [launch_raises |-> launch, networkidle_raises |-> goto1,
     domcontentloaded_raises |-> goto2, capture_raises |-> capture,
     html |-> text, screenshot_path |-> path]

\* every collaborator works and the page is captured
Page(text, path) == BrowserRun(FALSE, FALSE, FALSE, FALSE, text, path)

\* _browser_phase: launch, navigate with the domcontentloaded fallback,
\* capture; the browser is closed on every way out
_browser_phase(b) ==
    IF b.launch_raises THEN Raise("Error: browser launch failed")
    ELSE IF b.networkidle_raises /\ b.domcontentloaded_raises
    THEN Raise("TimeoutError: page.goto")
    ELSE IF b.capture_raises THEN Raise("Error: capture failed")
    ELSE Captured(b.html, b.screenshot_path)

\* the calls one work item makes: of extract_with_fallback, of the reducer
\* and of the extraction client
NoCalls == [cascade |-> 0, reducer |-> 0, client |-> 0]

\* the calls extract_with_fallback makes on a page, given the outcome t2 of
\* its tier 2
CallsAfterTier2(text, path, t2) ==
    [cascade |-> 1,
     reducer |-> IF text = <<>> \/ IsBlank(text) THEN 0 ELSE 1,
     client |->
        (IF text = <<>> \/ IsBlank(text) \/ IsBlank(clean_html(text))
         THEN 0 ELSE 1)
        + (IF /\ ~t2.raised /\ t2.value = None
              /\ path # "" /\ PathExists(path)
           THEN 1 ELSE 0)]

CascadeCalls(text, path, env, resp2) ==
    CallsAfterTier2(text, path, _try_tier_2(text, env, resp2))

GoodResponse ==
    [kind |-> "message",
     content |-> <<ToolUse("extract_pricing_data",
                    JObj([currency_code |-> JStr("EUR"),
                          currency_symbol |-> JStr("E"),
                          plans |-> JList(<<RawPro>>),
                          extraction_confidence |-> JStr("high")]))>>]

OkEnv == [client_ok |-> TRUE, pillow |-> TRUE]

\* cascade is what extract_with_fallback returns on the captured page when
\* the service answers its two calls by resp2 and resp4
World(resolve, proxy, browser, resp2, resp4, dump) ==
    [resolve_raises |-> resolve, proxy_raises |-> proxy, browser |-> browser,
     cascade |-> IF browser.raised THEN browser
                 ELSE extract_with_fallback(browser.value.html,
                                            browser.value.screenshot_path,
                                            OkEnv, resp2, resp4),
     cascade_calls |-> IF browser.raised THEN NoCalls
                       ELSE CascadeCalls(browser.value.html,
                                         browser.value.screenshot_path,
                                         OkEnv, resp2),
     dump_raises |-> dump]

\* what the collaborators do in each world: whether resolve_url and
\* get_proxy_config raise, the browser run, the answers of the service to
\* the two cascade calls, whether model_dump raises
WorldInputs ==
    [name \in {"tier_2", "tier_4", "none", "resolve_raises", "proxy_raises",
               "browser_raises", "launch_raises", "capture_raises",
               "fallback_navigation", "extract_raises", "dump_raises"} |->
       CASE name = "tier_2" ->
             [resolve |-> FALSE, proxy |-> FALSE,
              run |-> Page(PricingFragment, "shot.png"),
              resp2 |-> GoodResponse,
              resp4 |-> GoodResponse, dump |-> FALSE]
         [] name = "tier_4" ->
             [resolve |-> FALSE, proxy |-> FALSE,
              run |-> Page(PricingFragment, "shot.png"),
              resp2 |-> [kind |-> "api_error"],
              resp4 |-> [kind |-> "api_error"], dump |-> FALSE]
         [] name = "none" ->
             [resolve |-> FALSE, proxy |-> FALSE,
              run |-> Page(PricingFragment, ""),
              resp2 |-> [kind |-> "api_error"],
              resp4 |-> GoodResponse, dump |-> FALSE]
         [] name = "resolve_raises" ->
             [resolve |-> TRUE, proxy |-> FALSE,
              run |-> Page(PricingFragment, "shot.png"),
              resp2 |-> GoodResponse,
              resp4 |-> GoodResponse, dump |-> FALSE]
         [] name = "proxy_raises" ->
             [resolve |-> FALSE, proxy |-> TRUE,
              run |-> Page(PricingFragment, "shot.png"),
              resp2 |-> GoodResponse,
              resp4 |-> GoodResponse, dump |-> FALSE]
         [] name = "browser_raises" ->
             [resolve |-> FALSE, proxy |-> FALSE,
              run |-> BrowserRun(FALSE, TRUE, TRUE, FALSE,
                                PricingFragment, "shot.png"),
              resp2 |-> GoodResponse,
              resp4 |-> GoodResponse, dump |-> FALSE]
         [] name = "launch_raises" ->
             [resolve |-> FALSE, proxy |-> FALSE,
              run |-> BrowserRun(TRUE, FALSE, FALSE, FALSE,
                                PricingFragment, "shot.png"),
              resp2 |-> GoodResponse,
              resp4 |-> GoodResponse, dump |-> FALSE]
         [] name = "capture_raises" ->
             [resolve |-> FALSE, proxy |-> FALSE,
              run |-> BrowserRun(FALSE, FALSE, FALSE, TRUE,
                                PricingFragment, "shot.png"),
              resp2 |-> GoodResponse,
              resp4 |-> GoodResponse, dump |-> FALSE]
         [] name = "fallback_navigation" ->
             [resolve |-> FALSE, proxy |-> FALSE,
              run |-> BrowserRun(FALSE, TRUE, FALSE, FALSE,
                                PricingFragment, "shot.png"),
              resp2 |-> [kind |-> "api_error"],
              resp4 |-> GoodResponse, dump |-> FALSE]
         [] name = "extract_raises" ->
             [resolve |-> FALSE, proxy |-> FALSE,
              run |-> Page(PricingFragment, "shot.png"),
              resp2 |-> [kind |-> "exception"],
              resp4 |-> GoodResponse, dump |-> FALSE]
         [] name = "dump_raises" ->
             [resolve |-> FALSE, proxy |-> FALSE,
              run |-> Page(PricingFragment, "shot.png"),
              resp2 |-> GoodResponse,
              resp4 |-> GoodResponse, dump |-> TRUE]]

Worlds ==
    [name \in DOMAIN WorldInputs |->
        World(WorldInputs[name].resolve, WorldInputs[name].proxy,
              _browser_phase(WorldInputs[name].run),
              WorldInputs[name].resp2, WorldInputs[name].resp4,
              WorldInputs[name].dump)]

WorldNames == DOMAIN Worlds

\* a step of the item inside the try block raises in this world
WorldRaises(name) ==
    name \in {"resolve_raises", "proxy_raises", "browser_raises",
              "launch_raises", "capture_raises", "extract_raises",
              "dump_raises"}

(***************************************************************************)
(* v2/orchestrator.py : scrape_one                                         *)
(***************************************************************************)
\* lines 87-100: the record before the try block
InitialRecord(site_config, country) ==
    [site_id |-> site_config.id,
     display_name |-> site_config.display_name,
     country |-> country,
     url |-> <<>>,
     status |-> "error",
     tier |-> "none",
     confidence |-> "low",
     plan_count |-> 0,
     error |-> None,
     extraction |-> None,
     screenshot_path |-> "",
     elapsed_seconds |-> 0]

\* lines 136-138: the except branch
Failed(r, text) == [r EXCEPT !.status = "error", !.error = Some(text)]

\* a success path that reports an exhausted cascade as a failed item
ResolvedUnlessNone(r, er) ==
    IF er.tier = "none"
    THEN [r EXCEPT !.status = "error",
                   !.error = Some("All extraction tiers exhausted")]
    ELSE [r EXCEPT !.status = "success",
                   !.tier = er.tier,
                   !.confidence = er.extraction.extraction_confidence,
                   !.plan_count = Len(er.extraction.plans)]

\* lines 130-133: the fields set from the cascade result er
Resolved(r, er) ==
    [r EXCEPT !.status = "success",
              !.tier = er.tier,
              !.confidence = er.extraction.extraction_confidence,
              !.plan_count = Len(er.extraction.plans)]

\* the steps of scrape_one without the try/except: an exception escapes
ScrapeStepsUnguarded(r, url, w) ==
    IF \/ w.resolve_raises \/ w.proxy_raises \/ w.browser.raised
       \/ w.cascade.raised \/ w.dump_raises
    THEN Raise("exception in scrape_one")
    ELSE Ret([Resolved([r EXCEPT !.url = url,
                          !.screenshot_path = w.browser.value.screenshot_path],
                       w.cascade.value)
                EXCEPT !.extraction = Some(w.cascade.value.extraction)])

\* lines 102-148 on the initial record r and the resolved url, in world w
ScrapeSteps(r, url, w) ==
    IF w.resolve_raises
    THEN Ret(Failed(r, "KeyError: 'pricing_url'"))
    ELSE IF w.proxy_raises
    THEN Ret(Failed([r EXCEPT !.url = url], "proxy lookup failed"))
    ELSE IF w.browser.raised
    THEN Ret(Failed([r EXCEPT !.url = url], w.browser.exc))
    ELSE IF w.cascade.raised
    THEN Ret(Failed([r EXCEPT !.url = url,
                       !.screenshot_path = w.browser.value.screenshot_path],
                    w.cascade.exc))
    ELSE IF w.dump_raises
    THEN Ret(Failed(Resolved([r EXCEPT !.url = url,
                        !.screenshot_path = w.browser.value.screenshot_path],
                      w.cascade.value),
                    "model_dump failed"))
    ELSE Ret([Resolved([r EXCEPT !.url = url,
                          !.screenshot_path = w.browser.value.screenshot_path],
                       w.cascade.value)
                EXCEPT !.extraction = Some(w.cascade.value.extraction)])

\* lines 83-148: the outcome of scrape_one for one pair in world w; the
\* reads of lines 83-84 are outside the try block
scrape_one(site_config, country, w) ==
    IF "display_name" \notin DOMAIN site_config
    THEN Raise("KeyError: 'display_name'")
    ELSE ScrapeSteps(InitialRecord(site_config, country),
                     resolve_url(site_config, country), w)

\* a scrape_one that runs the cascade on an empty page when the page
\* could not be acquired
scrape_one_calls_cascade_anyway(site_config, w) ==
    IF "display_name" \notin DOMAIN site_config THEN NoCalls
    ELSE IF w.resolve_raises \/ w.proxy_raises THEN NoCalls
    ELSE IF w.browser.raised THEN [NoCalls EXCEPT !.cascade = 1]
    ELSE w.cascade_calls

\* lines 102-128: the cascade is called once, after resolve_url,
\* get_proxy_config and _browser_phase have returned
scrape_one_calls(site_config, w) ==
    IF "display_name" \notin DOMAIN site_config THEN NoCalls
    ELSE IF w.resolve_raises \/ w.proxy_raises \/ w.browser.raised
    THEN NoCalls
    ELSE w.cascade_calls

(***************************************************************************)
(* v2/orchestrator.py : run_scrape                                         *)
(***************************************************************************)
RECURSIVE PairsOfSiteCaseSensitive(_, _)
\* the inner loop comparing the country as given, without lower()
PairsOfSiteCaseSensitive(site, cs) ==
    IF cs = <<>> THEN <<>>
    ELSE (IF Head(cs) \in Range(site.countries)
          THEN <<[site |-> site, country |-> Lower(Head(cs))]>>
          ELSE <<>>)
         \o PairsOfSiteCaseSensitive(site, Tail(cs))

RECURSIVE PairsOfSite(_, _)
\* lines 232-240: the inner loop over the requested countries of one site
PairsOfSite(site, cs) ==
    IF cs = <<>> THEN <<>>
    ELSE (IF Lower(Head(cs)) \in Range(site.countries)
          THEN <<[site |-> site, country |-> Lower(Head(cs))]>>
          ELSE <<>>)
         \o PairsOfSite(site, Tail(cs))

RECURSIVE build_pairs(_, _)
\* lines 230-240: the outer loop over the requested sites
build_pairs(ss, cs) ==
    IF ss = <<>> THEN <<>>
    ELSE PairsOfSite(Head(ss), cs) \o build_pairs(Tail(ss), cs)

\* any collaborator behaviour for any pair
FreeStub == [p \in SiteIds \X LowerCodes |-> WorldNames]

\* for the batches run by the pool: a world in which the item resolves and
\* one world for each step of scrape_one that can raise
PoolStub ==
    [p \in SiteIds \X LowerCodes |->
        {"tier_2", "resolve_raises", "proxy_raises", "browser_raises",
         "extract_raises", "dump_raises"}]

\* the stubbed batch of the isolation scenario: acquisition fails for
\* (b, us) and every other item resolves at tier 2
ScenarioStub ==
    [p \in SiteIds \X LowerCodes |->
        IF p = <<"b", "us">> THEN {"browser_raises"} ELSE {"tier_2"}]

\* the item's own behaviour does not matter to the scheduling of the pool
SchedulingStub ==
    [p \in SiteIds \X LowerCodes |-> {"tier_2", "browser_raises"}]

\* the requested countries, for a batch of at most MaxItems work items
FreeCountries ==
    /\ countries \in SeqsUpTo(CountryCodes, MaxCountries)
    /\ Len(build_pairs(sites, countries)) <= MaxItems

FreeBatch ==
    /\ sites \in {<<SiteA>>, <<SiteX>>, <<SiteA, SiteX>>}
    /\ FreeCountries
    /\ concurrent \in BOOLEAN
    /\ max_workers \in (IF concurrent THEN 1..MaxWorkers ELSE {MaxWorkers})
    /\ stub = (IF concurrent THEN PoolStub ELSE FreeStub)

ScenarioBatch ==
    /\ sites = <<SiteA, SiteB, SiteC>>
    /\ countries = <<"us", "de">>
    /\ concurrent = TRUE
    /\ max_workers = 3
    /\ stub = ScenarioStub

\* batches run by the pool
PoolBatch ==
    /\ sites \in {<<SiteA>>, <<SiteX>>, <<SiteA, SiteX>>}
    /\ FreeCountries
    /\ concurrent = TRUE
    /\ max_workers \in 1..MaxWorkers
    /\ stub = SchedulingStub

\* batches over site dicts as a caller of run_scrape may pass them: with or
\* without the display_name key
AnyConfigBatch ==
    /\ sites \in {<<SiteN>>, <<SiteA, SiteN>>, <<SiteN, SiteA>>}
    /\ FreeCountries
    /\ concurrent \in BOOLEAN
    /\ max_workers \in (IF concurrent THEN 1..MaxWorkers ELSE {MaxWorkers})
    /\ stub = SchedulingStub

\* run_scrape has been called and nothing has run yet
RunStart ==
    /\ run_pc = "start"
    /\ pairs = <<>> /\ item_pc = <<>> /\ item_world = <<>> /\ futures = <<>>
    /\ results = <<>> /\ returned = None /\ interrupted = FALSE
    /\ item_calls = <<>> /\ saved_paths = None /\ written = <<>>
    /\ summary = None
    /\ GateIdle /\ ClientIdle /\ CascadeIdle /\ UnitsIdle

Init == RunStart /\ (FreeBatch \/ ScenarioBatch)

inputVars == <<sites, countries, concurrent, max_workers, stub>>
reportVars == <<saved_paths, written, summary>>
otherVars == <<gateVars, clientVars, cascadeVars, reportVars, unitVars>>

Items == 1..Len(pairs)
Running == {i \in Items : item_pc[i] = "running"}
StubOf(i) == stub[<<pairs[i].site.id, pairs[i].country>>]

\* lines 229-248: expand the work items and pick the mode
Expand ==
    /\ run_pc = "start"
    /\ LET ps == build_pairs(sites, countries)
       IN /\ pairs' = ps
          /\ item_pc' = [i \in 1..Len(ps) |-> "queued"]
          /\ item_world' = [i \in 1..Len(ps) |-> ""]
          /\ item_calls' = [i \in 1..Len(ps) |-> NoCalls]
          /\ futures' = [i \in 1..Len(ps) |-> None]
          /\ run_pc' = IF concurrent /\ Len(ps) > 1
                       THEN "concurrent" ELSE "sequential"
    /\ UNCHANGED <<inputVars, results, returned, interrupted, otherVars>>

\* lines 254-256: the loop of _run_sequential enters scrape_one
SequentialStart ==
    /\ run_pc = "sequential"
    /\ Len(results) < Len(pairs)
    /\ item_pc[Len(results) + 1] = "queued"
    /\ item_pc' = [item_pc EXCEPT ![Len(results) + 1] = "running"]
    /\ UNCHANGED <<run_pc, inputVars, pairs, item_world, item_calls,
                   futures, results, returned, interrupted, otherVars>>

\* lines 256-257 once scrape_one of item i has ended as out: its record is
\* appended; an exception that escapes scrape_one ends run_scrape
SequentialAppend(i, out) ==
    /\ futures' = [futures EXCEPT ![i] = Some(out)]
    /\ IF out.raised
       THEN /\ run_pc' = "aborted"
            /\ item_pc' = [item_pc EXCEPT ![i] = "done"]
            /\ results' = results
       ELSE /\ run_pc' = run_pc
            /\ item_pc' = [item_pc EXCEPT ![i] = "collected"]
            /\ results' = Append(results, out.value)

\* lines 256-257: scrape_one runs for the item the loop is at
SequentialFinish ==
    /\ run_pc = "sequential"
    /\ \E i \in Running : \E name \in StubOf(i) :
          /\ item_world' = [item_world EXCEPT ![i] = name]
          /\ item_calls' = [item_calls EXCEPT ![i] =
                scrape_one_calls(pairs[i].site, Worlds[name])]
          /\ SequentialAppend(i, scrape_one(pairs[i].site, pairs[i].country,
                                            Worlds[name]))
    /\ UNCHANGED <<inputVars, pairs, returned, interrupted, otherVars>>

\* line 258
SequentialReturn ==
    /\ run_pc = "sequential"
    /\ Len(results) = Len(pairs)
    /\ returned' = Some(results)
    /\ run_pc' = "returned"
    /\ UNCHANGED <<inputVars, pairs, item_pc, item_world, item_calls,
                   futures, results, interrupted, otherVars>>

\* a pool that starts a thread for every submitted item
WorkerStartUnbounded(i) ==
    /\ run_pc = "concurrent"
    /\ item_pc[i] = "queued"
    /\ \A j \in Items : j < i => item_pc[j] # "queued"
    /\ item_pc' = [item_pc EXCEPT ![i] = "running"]
    /\ UNCHANGED <<run_pc, inputVars, pairs, item_world, item_calls,
                   futures, results, returned, interrupted, otherVars>>

\* lines 270-274: a pool thread takes the oldest queued future; at most
\* max_workers threads exist
WorkerStart(i) ==
    /\ run_pc = "concurrent"
    /\ item_pc[i] = "queued"
    /\ \A j \in Items : j < i => item_pc[j] # "queued"
    /\ Cardinality(Running) < max_workers
    /\ item_pc' = [item_pc EXCEPT ![i] = "running"]
    /\ UNCHANGED <<run_pc, inputVars, pairs, item_world, item_calls,
                   futures, results, returned, interrupted, otherVars>>

\* scrape_one ends in a pool thread; its outcome is stored in the future
WorkerFinish(i) ==
    /\ run_pc = "concurrent"
    /\ item_pc[i] = "running"
    /\ \E name \in StubOf(i) :
          /\ item_world' = [item_world EXCEPT ![i] = name]
          /\ item_calls' = [item_calls EXCEPT ![i] =
                scrape_one_calls(pairs[i].site, Worlds[name])]
          /\ futures' = [futures EXCEPT ![i] =
                Some(scrape_one(pairs[i].site, pairs[i].country, Worlds[name]))]
    /\ item_pc' = [item_pc EXCEPT ![i] = "done"]
    /\ UNCHANGED <<run_pc, inputVars, pairs, results, returned, interrupted,
                   otherVars>>

\* lines 285-293: the record built when future.result() raises
FutureFailureRecord(i, text) ==
    [site_id |-> pairs[i].site.id,
     country |-> pairs[i].country,
     status |-> "error",
     error |-> Some(text),
     tier |-> "none",
     confidence |-> "low",
     plan_count |-> 0]

\* a collecting loop that appends only the records of successful items
CollectDropsErrors(i) ==
    /\ run_pc = "concurrent"
    /\ item_pc[i] = "done"
    /\ results' = IF \/ TheValue(futures[i]).raised
                     \/ TheValue(futures[i]).value.status = "error"
                  THEN results
                  ELSE Append(results, TheValue(futures[i]).value)
    /\ item_pc' = [item_pc EXCEPT ![i] = "collected"]
    /\ UNCHANGED <<run_pc, inputVars, pairs, item_world, item_calls,
                   futures, returned, interrupted, otherVars>>

\* lines 276-293: as_completed yields a finished future, in any order
Collect(i) ==
    /\ run_pc = "concurrent"
    /\ item_pc[i] = "done"
    /\ results' = IF TheValue(futures[i]).raised
                  THEN Append(results,
                         FutureFailureRecord(i, TheValue(futures[i]).exc))
                  ELSE Append(results, TheValue(futures[i]).value)
    /\ item_pc' = [item_pc EXCEPT ![i] = "collected"]
    /\ UNCHANGED <<run_pc, inputVars, pairs, item_world, item_calls,
                   futures, returned, interrupted, otherVars>>

\* line 295
ConcurrentReturn ==
    /\ run_pc = "concurrent"
    /\ \A i \in Items : item_pc[i] = "collected"
    /\ returned' = Some(results)
    /\ run_pc' = "returned"
    /\ UNCHANGED <<inputVars, pairs, item_pc, item_world, item_calls,
                   futures, results, interrupted, otherVars>>

\* a stop that hands back the records collected so far
InterruptReturnsPartial ==
    /\ run_pc \in {"sequential", "concurrent"}
    /\ interrupted' = TRUE
    /\ run_pc' = "aborted"
    /\ returned' = Some(results)
    /\ UNCHANGED <<inputVars, pairs, item_pc, item_world, item_calls,
                   futures, results, otherVars>>

\* The batch is stopped: KeyboardInterrupt is raised in the main thread.
\* It is not an Exception, so neither line 136 nor line 283 catches it: it
\* leaves the loop of _run_sequential, or the as_completed loop and (once
\* the pool has shut down) the with-block of _run_concurrent, and then
\* run_scrape.  Nothing is returned and the local list `results` is gone.
Interrupt ==
    /\ run_pc \in {"sequential", "concurrent"}
    /\ interrupted' = TRUE
    /\ run_pc' = "aborted"
    /\ UNCHANGED <<inputVars, pairs, item_pc, item_world, item_calls,
                   futures, results, returned, otherVars>>

(***************************************************************************)
(* v2/orchestrator.py : save_results and print_summary, called by main on  *)
(* the list run_scrape returned                                            *)
(***************************************************************************)
\* dict.get(key, default) on a record
Get(r, key, default) == IF key \in DOMAIN r THEN r[key] ELSE default

\* lines 312-319: the file a record is written to; the timestamp is taken
\* once, before the loop, so it is the same for every record of the call
FileName(r) ==
    <<Get(r, "site_id", "unknown"), Get(r, "country", "unknown"),
      "timestamp", ".json">>

RECURSIVE WriteAll(_, _)
\* lines 315-324: open(path, "w") creates the file or replaces its content
WriteAll(rs, disk) ==
    IF rs = <<>> THEN disk
    ELSE WriteAll(Tail(rs),
                  [f \in DOMAIN disk \cup {FileName(Head(rs))} |->
                      IF f = FileName(Head(rs)) THEN Head(rs) ELSE disk[f]])

\* lines 302-326
SaveResults ==
    /\ run_pc = "returned"
    /\ written' = WriteAll(TheValue(returned), written)
    /\ saved_paths' = Some([j \in 1..Len(TheValue(returned)) |->
                              FileName(TheValue(returned)[j])])
    /\ run_pc' = "saved"
    /\ UNCHANGED <<inputVars, pairs, item_pc, item_world, item_calls,
                   futures, results, returned, interrupted, summary,
                   gateVars, clientVars, cascadeVars, unitVars>>

\* line 365 / 367: counts[k] = counts.get(k, 0) + 1
Increment(counts, k) ==
    [x \in DOMAIN counts \cup {k} |->
        IF x = k THEN Get(counts, k, 0) + 1 ELSE counts[x]]

RECURSIVE CountAllBy(_, _, _)
\* a counting loop without the status test of line 363
CountAllBy(rs, key, counts) ==
    IF rs = <<>> THEN counts
    ELSE CountAllBy(Tail(rs), key,
                    Increment(counts, Get(Head(rs), key, "unknown")))

RECURSIVE CountSuccessBy(_, _, _)
\* lines 362-367: the loop that counts the success records by tier or by
\* confidence
CountSuccessBy(rs, key, counts) ==
    IF rs = <<>> THEN counts
    ELSE IF Get(Head(rs), "status", None) = "success"
    THEN CountSuccessBy(Tail(rs), key,
                        Increment(counts, Get(Head(rs), key, "unknown")))
    ELSE CountSuccessBy(Tail(rs), key, counts)

\* line 357
SuccessCount(rs) ==
    Cardinality({j \in 1..Len(rs) : Get(rs[j], "status", None) = "success"})

\* a summary whose tier and confidence counts run over every record
print_summary_counting_all(rs) ==
    [total |-> Len(rs),
     success |-> SuccessCount(rs),
     errors |-> Len(rs) - SuccessCount(rs),
     tier_counts |-> CountAllBy(rs, "tier", <<>>),
     confidence_counts |-> CountAllBy(rs, "confidence", <<>>)]

\* lines 355-367: the summary statistics
print_summary(rs) ==
    [total |-> Len(rs),
     success |-> SuccessCount(rs),
     errors |-> Len(rs) - SuccessCount(rs),
     tier_counts |-> CountSuccessBy(rs, "tier", <<>>),
     confidence_counts |-> CountSuccessBy(rs, "confidence", <<>>)]

\* lines 329-379, after save_results or, with --no-save, right after
\* run_scrape
PrintSummary ==
    /\ run_pc \in {"returned", "saved"}
    /\ summary' = Some(print_summary(TheValue(returned)))
    /\ run_pc' = "finished"
    /\ UNCHANGED <<inputVars, pairs, item_pc, item_world, item_calls,
                   futures, results, returned, interrupted, saved_paths,
                   written, gateVars, clientVars, cascadeVars, unitVars>>

Next ==
    \/ Expand
    \/ SequentialStart
    \/ SequentialFinish
    \/ SequentialReturn
    \/ \E i \in Items : WorkerStart(i)
    \/ \E i \in Items : WorkerFinish(i)
    \/ \E i \in Items : Collect(i)
    \/ ConcurrentReturn
    \/ Interrupt
    \/ SaveResults
    \/ PrintSummary

Spec == Init /\ [][Next]_vars

\* the same program on batches whose site dicts may lack display_name
InitAnyConfig == RunStart /\ AnyConfigBatch

SpecAnyConfig == InitAnyConfig /\ [][Next]_vars

\* The pool on its own: batches in concurrent mode that nobody stops.  The
\* pool threads and the collecting loop are scheduled by the operating
\* system, so an enabled start, an enabled end of scrape_one and an enabled
\* collection each happen eventually.
PoolInit == RunStart /\ (PoolBatch \/ ScenarioBatch)

PoolNext ==
    \/ Expand
    \/ SequentialStart
    \/ SequentialFinish
    \/ SequentialReturn
    \/ \E i \in Items : WorkerStart(i)
    \/ \E i \in Items : WorkerFinish(i)
    \/ \E i \in Items : Collect(i)
    \/ ConcurrentReturn
    \/ SaveResults
    \/ PrintSummary

SpecPool ==
    /\ PoolInit
    /\ [][PoolNext]_vars
    /\ WF_vars(Expand)
    /\ WF_vars(\E i \in Items : WorkerStart(i))
    /\ WF_vars(\E i \in Items : WorkerFinish(i))
    /\ WF_vars(\E i \in Items : Collect(i))

\* the (site, country) a record or a work item is about
RecordKey(r) == <<r.site_id, r.country>>
PairKey(i) == <<pairs[i].site.id, pairs[i].country>>

\* the record that item i yielded, once it has ended
RecordOf(i) == TheValue(futures[i]).value

Count(seq, Test(_)) == Cardinality({j \in 1..Len(seq) : Test(seq[j])})

C5_OneRecordPerItem ==
    /\ Len(results) = Cardinality({i \in Items : item_pc[i] = "collected"})
    /\ run_pc = "returned" =>
          /\ TheValue(returned) = results
          /\ Len(TheValue(returned)) = Len(pairs)
          /\ \A k \in SiteIds \X LowerCodes :
                Cardinality({i \in Items : PairKey(i) = k})
                    = Count(TheValue(returned), LAMBDA r : RecordKey(r) = k)

\* a concurrent batch returned with its records in another order than its
\* work items, one of them an error record
C5_Witness ==
    /\ run_pc = "returned" /\ concurrent /\ Len(pairs) = 2
    /\ RecordKey(TheValue(returned)[1]) = PairKey(2)
    /\ RecordKey(TheValue(returned)[2]) = PairKey(1)
    /\ PairKey(1) # PairKey(2)
    /\ TheValue(returned)[1].status = "error"

\* the requested combinations, as (position in sites, position in countries)
Requested == (1..Len(sites)) \X (1..Len(countries))
Supported(sc) ==
    Lower(countries[sc[2]]) \in Range(sites[sc[1]].countries)

\* C10: run_scrape creates one work item for exactly the requested (site,
\* country) combinations whose lower-cased country is in the site's country
\* list; an unsupported combination creates no work item, gets no record
\* of any status, and raises nothing.
C10_ExpansionFiltersUnsupported ==
    run_pc # "start" =>
        /\ Len(pairs) = Cardinality({sc \in Requested : Supported(sc)})
        /\ \A sc \in Requested :
              Supported(sc) <=>
                  \E i \in Items : /\ pairs[i].site = sites[sc[1]]
                                   /\ pairs[i].country = Lower(countries[sc[2]])
        /\ \A j \in 1..Len(results) :
              \E sc \in Requested :
                  /\ Supported(sc)
                  /\ RecordKey(results[j])
                        = <<sites[sc[1]].id, Lower(countries[sc[2]])>>
        /\ run_pc = "aborted" => interrupted

\* a batch returned for which an upper-case code made a work item and an
\* unsupported combination made none
C10_Witness ==
    /\ run_pc = "returned"
    /\ \E sc \in Requested : ~Supported(sc)
    /\ \E sc \in Requested : Supported(sc) /\ countries[sc[2]] = "DE"
    /\ Len(TheValue(returned)) = Len(pairs) /\ Len(pairs) > 0

Ended(i) == item_pc[i] \in {"done", "collected"}

\* the page of item i could not be acquired: resolve_url and
\* get_proxy_config returned and _browser_phase raised
AcquisitionFailed(i) ==
    /\ ~Worlds[item_world[i]].resolve_raises
    /\ ~Worlds[item_world[i]].proxy_raises
    /\ Worlds[item_world[i]].browser.raised

\* C11: when the page-acquisition phase of an item fails (launch,
\* navigation after its fallback, capture), the item's record has
\* status=error and the cascade was not invoked for it: no call of
\* extract_with_fallback, of the reducer or of the extraction client.
C11_AcquisitionFailureSkipsCascade ==
    \A i \in Items :
        (Ended(i) /\ AcquisitionFailed(i)) =>
            /\ ~TheValue(futures[i]).raised
            /\ RecordOf(i).status = "error"
            /\ RecordOf(i).error # None
            /\ RecordOf(i).extraction = None
            /\ item_calls[i] = NoCalls

\* a batch returned in which capture failed for one item, with no call
\* made, and the other item, whose first navigation failed, ran the cascade
C11_Witness ==
    /\ run_pc = "returned" /\ Len(pairs) = 2
    /\ item_world[1] = "capture_raises"
    /\ RecordOf(1).status = "error" /\ item_calls[1] = NoCalls
    /\ item_world[2] = "fallback_navigation"
    /\ RecordOf(2).status = "success" /\ item_calls[2].client = 2

\* the cascade of item i returned the result tagged "none"
CascadeExhausted(i) ==
    /\ ~Worlds[item_world[i]].resolve_raises
    /\ ~Worlds[item_world[i]].proxy_raises
    /\ ~Worlds[item_world[i]].browser.raised
    /\ ~Worlds[item_world[i]].cascade.raised
    /\ Worlds[item_world[i]].cascade.value.tier = "none"

\* C12: whenever the cascade returns a result tagged "none", the item's
\* record has status=success, tier="none", confidence=low, plan_count=0
\* and error=null.
C12_ExhaustionIsSuccess ==
    \A i \in Items :
        (Ended(i) /\ CascadeExhausted(i)) =>
            /\ ~TheValue(futures[i]).raised
            /\ RecordOf(i).status = "success"
            /\ RecordOf(i).tier = "none"
            /\ RecordOf(i).confidence = "low"
            /\ RecordOf(i).plan_count = 0
            /\ RecordOf(i).error = None

\* a returned record of an item whose tier 2 was attempted and missed the
\* gate and whose tier 4 had no screenshot
C12_Witness ==
    /\ run_pc = "returned"
    /\ \E i \in Items :
          /\ CascadeExhausted(i)
          /\ item_calls[i] = [cascade |-> 1, reducer |-> 1, client |-> 1]
          /\ \E j \in 1..Len(TheValue(returned)) :
                /\ TheValue(returned)[j] = RecordOf(i)
                /\ TheValue(returned)[j].status = "success"
                /\ TheValue(returned)[j].tier = "none"

\* C27: a record scrape_one returned with status=error has tier="none",
\* confidence="low", plan_count=0, extraction=null and a non-null error; a
\* record with status=success has error=null, a non-null extraction,
\* plan_count equal to the number of plans of that extraction, and the tier
\* and confidence of the cascade result.
C27_RecordConsistency ==
    \A i \in Items :
        (Ended(i) /\ ~TheValue(futures[i]).raised) =>
            LET r == RecordOf(i)
                w == Worlds[item_world[i]]
            IN /\ r.status \in {"error", "success"}
               /\ r.status = "error" =>
                     /\ r.tier = "none" /\ r.confidence = "low"
                     /\ r.plan_count = 0 /\ r.extraction = None
                     /\ r.error # None
               /\ r.status = "success" =>
                     /\ r.error = None /\ r.extraction # None
                     /\ r.plan_count = Len(TheValue(r.extraction).plans)
                     /\ ~w.cascade.raised
                     /\ r.tier = w.cascade.value.tier
                     /\ r.confidence
                           = w.cascade.value.extraction.extraction_confidence

\* work items of the pool: the free batches have at most MaxItems of them
\* and the scenario batch has one per site and country
ItemIds == 1..Max2(MaxItems, Len(<<SiteA, SiteB, SiteC>>) * Len(<<"us", "de">>))

\* C17: in concurrent mode at most max_workers items execute scrape_one at
\* the same time, and every queued item is eventually started and
\* completed, given that each scrape_one terminates.
C17_BoundedPoolDrains ==
    /\ [](run_pc = "concurrent" => Cardinality(Running) <= max_workers)
    /\ \A i \in ItemIds :
          (run_pc = "concurrent" /\ i \in Items /\ item_pc[i] = "queued")
              ~> (i \in Items /\ Ended(i))

\* the pool is full while an item waits and another has been collected
C17_Witness ==
    /\ run_pc = "concurrent"
    /\ Cardinality(Running) = max_workers
    /\ \E i \in Items : item_pc[i] = "queued"
    /\ \E i \in Items : item_pc[i] = "collected"

\* C18: after save_results every work item's record is stored in a file of
\* its own: as many distinct files as work items, each holding its record.
C18_OneFilePerItem ==
    saved_paths # None =>
        /\ Len(TheValue(saved_paths)) = Len(pairs)
        /\ Cardinality(DOMAIN written) = Len(pairs)
        /\ \A j \in 1..Len(TheValue(returned)) :
              written[FileName(TheValue(returned)[j])] = TheValue(returned)[j]

\* the fields of a record
RecordFields ==
    {"site_id", "country", "url", "status", "tier", "confidence",
     "plan_count", "error", "extraction", "elapsed_seconds"}

\* C19: every record of the list run_scrape returns carries all of
\* site_id, country, url, status, tier, confidence, plan_count, error,
\* extraction and elapsed_seconds, on the success path, on the in-item
\* error path and on the future-failure path of concurrent mode.
C19_RecordShape ==
    returned # None =>
        \A j \in 1..Len(TheValue(returned)) :
            RecordFields \subseteq DOMAIN TheValue(returned)[j]

RECURSIVE SumOver(_, _)
\* the sum of the counts of the keys in S
SumOver(counts, S) ==
    IF S = {} THEN 0
    ELSE LET k == CHOOSE x \in S : TRUE
         IN counts[k] + SumOver(counts, S \ {k})

\* C20: in the summary, success + errors is the number of records, errors
\* is the number of records that are not successes, the tier counts and
\* the confidence counts are taken over the success records only, and each
\* of the two sums to the success count.
C20_SummaryCountsConsistent ==
    summary # None =>
        LET sm == TheValue(summary)
            rs == TheValue(returned)
            Succ == {j \in 1..Len(rs) : rs[j].status = "success"}
        IN /\ sm.total = Len(rs)
           /\ sm.success = Cardinality(Succ)
           /\ sm.success + sm.errors = Len(rs)
           /\ sm.errors = Cardinality({j \in 1..Len(rs) : rs[j].status = "error"})
           /\ DOMAIN sm.tier_counts = {rs[j].tier : j \in Succ}
           /\ \A t \in DOMAIN sm.tier_counts :
                 sm.tier_counts[t] = Cardinality({j \in Succ : rs[j].tier = t})
           /\ DOMAIN sm.confidence_counts = {rs[j].confidence : j \in Succ}
           /\ \A c \in DOMAIN sm.confidence_counts :
                 sm.confidence_counts[c]
                     = Cardinality({j \in Succ : rs[j].confidence = c})
           /\ SumOver(sm.tier_counts, DOMAIN sm.tier_counts) = sm.success
           /\ SumOver(sm.confidence_counts, DOMAIN sm.confidence_counts)
                 = sm.success

\* the summary of a batch with a success record and an error record whose
\* tier and confidence are counted in no bucket
C20_Witness ==
    /\ summary # None
    /\ TheValue(summary).success = 1 /\ TheValue(summary).errors = 1
    /\ TheValue(summary).tier_counts = [t \in {"tier_4"} |-> 1]
    /\ TheValue(summary).confidence_counts = [c \in {"low"} |-> 1]

(***************************************************************************)
(* proxy_utils.py and enhanced_proxy_utils.py                              *)
(***************************************************************************)
\* the keys of COUNTRY_MAPPING; proxy_config.py is not part of the sources,
\* the mapping of the model knows us and de and does not know fr
COUNTRY_MAPPING == {"us", "de"}

\* proxy_utils.get_proxy_url: the URL built for a mapped country, or None
get_proxy_url(country_code) ==
    IF Lower(country_code) \in COUNTRY_MAPPING
    THEN Some(<<"http://user:password_country-", Lower(country_code),
                "@host:port">>)
    ELSE None

\* what test_proxy_geo_accuracy can report; it catches every exception, and
\* sets geo_accurate and youtube_accessible only after proxy_works (lines
\* 46-99)
ValidationOutcomes ==
    {v \in [proxy_works : BOOLEAN, geo_accurate : BOOLEAN,
            youtube_accessible : BOOLEAN] :
        /\ v.geo_accurate => v.proxy_works
        /\ v.youtube_accessible => v.proxy_works}

\* a test that takes any proxy that answers, whatever country it is in
AcceptsAnyWorkingProxy(validation_results) ==
    validation_results.proxy_works

\* line 151: the test an attempt must pass
Accepts(validation_results) ==
    validation_results.proxy_works /\ validation_results.geo_accurate

\* the default of max_proxy_attempts, used by get_proxy_config
DefaultProxyAttempts == 3

(***************************************************************************)
(* SpecProxy: one call of get_validated_proxy_for_country.  px_i is        *)
(* proxy_attempt, px_history the validation results of the calls of        *)
(* test_proxy_geo_accuracy so far, px_ret the returned pair.               *)
(***************************************************************************)
NoProxyFound == [proxy_url |-> None, validation |-> None]

ProxyInit ==
    /\ px_pc = "loop" /\ px_country \in CountryCodes
    /\ px_max \in 0..MaxProxyAttempts
    /\ px_i = 0 /\ px_history = <<>> /\ px_ret = None
    /\ GateIdle /\ ClientIdle /\ CascadeIdle /\ OrchIdle
    /\ ReducerIdle /\ ScrapeIdle

\* lines 142-149: an iteration that gets no proxy URL goes on to the next
AttemptWithoutUrl ==
    /\ px_pc = "loop" /\ px_i < px_max
    /\ get_proxy_url(px_country) = None
    /\ px_i' = px_i + 1
    /\ UNCHANGED <<px_pc, px_country, px_max, px_history, px_ret,
                   gateVars, clientVars, cascadeVars, orchVars,
                   reducerVars, scrapeVars>>

\* lines 142-174: an iteration that validates the proxy URL and returns it
\* when the validation is accepted
AttemptValidates ==
    /\ px_pc = "loop" /\ px_i < px_max
    /\ get_proxy_url(px_country) # None
    /\ \E v \in ValidationOutcomes :
          /\ px_history' = Append(px_history, v)
          /\ IF Accepts(v)
             THEN /\ px_ret' = Some([proxy_url |-> get_proxy_url(px_country),
                                     validation |-> Some(v)])
                  /\ px_pc' = "returned" /\ px_i' = px_i
             ELSE /\ px_ret' = px_ret
                  /\ px_pc' = px_pc /\ px_i' = px_i + 1
    /\ UNCHANGED <<px_country, px_max,
                   gateVars, clientVars, cascadeVars, orchVars,
                   reducerVars, scrapeVars>>

\* lines 176-178: the loop ran out
LoopExhausted ==
    /\ px_pc = "loop" /\ px_i >= px_max
    /\ px_ret' = Some(NoProxyFound)
    /\ px_pc' = "returned"
    /\ UNCHANGED <<px_country, px_max, px_i, px_history,
                   gateVars, clientVars, cascadeVars, orchVars,
                   reducerVars, scrapeVars>>

ProxyNext == AttemptWithoutUrl \/ AttemptValidates \/ LoopExhausted

SpecProxy == ProxyInit /\ [][ProxyNext]_vars

\* C30: get_validated_proxy_for_country validates at most max_proxy_attempts
\* times; it returns a proxy URL only from an attempt whose validation
\* reported proxy_works and geo_accurate, whatever youtube_accessible says,
\* and makes no attempt after such an attempt; it returns (None, None) when
\* no attempt qualified or no proxy URL is available.
C30_ValidatedProxyLoop ==
    LET n == Len(px_history)
        Qualifies(k) == /\ px_history[k].proxy_works
                        /\ px_history[k].geo_accurate
    IN /\ n <= px_max
       /\ \A k \in 1..(n - 1) : ~Qualifies(k)
       /\ (n > 0 /\ Qualifies(n)) =>
             /\ px_pc = "returned"
             /\ TheValue(px_ret).proxy_url # None
       /\ px_ret # None =>
             IF TheValue(px_ret).proxy_url # None
             THEN /\ n > 0 /\ Qualifies(n)
                  /\ TheValue(px_ret).validation = Some(px_history[n])
                  /\ TheValue(px_ret).proxy_url = get_proxy_url(px_country)
             ELSE /\ TheValue(px_ret) = NoProxyFound
                  /\ \A k \in 1..n : ~Qualifies(k)
                  /\ IF get_proxy_url(px_country) = None
                     THEN n = 0 ELSE n = px_max

\* the second of three attempts found a geo-accurate proxy that cannot
\* reach YouTube, after a first proxy in the wrong country
C30_Witness ==
    /\ px_pc = "returned" /\ px_max = 3 /\ Len(px_history) = 2
    /\ px_history[1].proxy_works /\ ~px_history[1].geo_accurate
    /\ px_history[2].geo_accurate /\ ~px_history[2].youtube_accessible
    /\ TheValue(px_ret).proxy_url # None

(***************************************************************************)
(* SpecScrape: one work item from the proxy lookup of scrape_one (line     *)
(* 108) to its record, statement by statement.  so_pc is the position,     *)
(* so_site the site config, so_modules the proxy modules that can be       *)
(* imported, so_proxy what get_proxy_config returned, so_exc the step      *)
(* whose exception is propagating.  bp_browser is the browser launched     *)
(* for the item, bp_launch_arg the proxy handed to launch_browser,         *)
(* bp_closes the number of calls of browser.close().  Every collaborator   *)
(* of the browser phase and the cascade either returns or raises;          *)
(* browser.close() returns.                                                *)
(***************************************************************************)
\* enhanced_proxy_utils imports proxy_utils, which imports proxy_config
ModuleSets == {{}, {"proxy_utils"}, {"proxy_utils", "enhanced_proxy_utils"}}

ScrapeSites ==
    [enhanced_proxy_validation : BOOLEAN, requires_interaction : BOOLEAN]

\* registry.py lines 108-113: the basic proxy, None when proxy_utils
\* cannot be imported
BasicProxy(country, modules) ==
    IF "proxy_utils" \in modules THEN get_proxy_url(country) ELSE None

\* a scrape_one that gives the item up when it has no proxy
AfterProxyLookupNeedsProxy(proxy_url) ==
    IF proxy_url = None THEN "except" ELSE "launch"

\* orchestrator.py lines 108-115: with or without a proxy, the browser
\* phase is next
AfterProxyLookup(proxy_url) == "launch"

\* a browser phase without its finally block
HandlerWithoutFinally(step) == "except"

\* where an exception raised by a step goes: launch_browser is called
\* outside the try block of _browser_phase (line 164), every later step
\* inside it (lines 166-204)
Handler(step) == IF step = "launch" THEN "except" ELSE "finally"

ScrapeInit ==
    /\ so_pc = "get_proxy_config"
    /\ so_site \in ScrapeSites /\ so_modules \in ModuleSets
    /\ so_proxy = None /\ so_cascade = FALSE /\ so_status = ""
    /\ so_exc = None
    /\ bp_browser = "none" /\ bp_launch_arg = None /\ bp_closes = 0
    /\ px_pc = "idle" /\ px_country \in CountryCodes
    /\ px_max = DefaultProxyAttempts
    /\ px_i = 0 /\ px_history = <<>> /\ px_ret = None
    /\ GateIdle /\ ClientIdle /\ CascadeIdle /\ OrchIdle /\ ReducerIdle

\* registry.py lines 93-113: get_proxy_config up to its return or to its
\* call of get_validated_proxy_for_country
GetProxyConfig ==
    /\ so_pc = "get_proxy_config"
    /\ IF Lower(px_country) = "us"
       THEN /\ so_proxy' = Some(None)
            /\ so_pc' = AfterProxyLookup(None)
            /\ px_pc' = px_pc
       ELSE IF /\ so_site.enhanced_proxy_validation
               /\ "enhanced_proxy_utils" \in so_modules
       THEN /\ so_proxy' = so_proxy
            /\ so_pc' = "validating"
            /\ px_pc' = "loop"
       ELSE /\ so_proxy' = Some(BasicProxy(px_country, so_modules))
            /\ so_pc' = AfterProxyLookup(BasicProxy(px_country, so_modules))
            /\ px_pc' = px_pc
    /\ UNCHANGED <<so_site, so_modules, so_cascade, so_status, so_exc,
                   bp_browser, bp_launch_arg, bp_closes,
                   px_country, px_max, px_i, px_history, px_ret,
                   gateVars, clientVars, cascadeVars, orchVars, reducerVars>>

\* registry.py lines 99-104: the validated proxy, or None with a warning
ValidatedProxyReturned ==
    /\ so_pc = "validating" /\ px_pc = "returned"
    /\ so_proxy' = Some(TheValue(px_ret).proxy_url)
    /\ so_pc' = AfterProxyLookup(TheValue(px_ret).proxy_url)
    /\ UNCHANGED <<so_site, so_modules, so_cascade, so_status, so_exc,
                   bp_browser, bp_launch_arg, bp_closes, proxyVars,
                   gateVars, clientVars, cascadeVars, orchVars, reducerVars>>

\* line 164: launch_browser(pw, site_config, proxy_url)
LaunchBrowser ==
    /\ so_pc = "launch"
    /\ bp_launch_arg' = Some(TheValue(so_proxy))
    /\ \/ /\ bp_browser' = "open"
          /\ so_pc' = "create_context" /\ so_exc' = so_exc
       \/ /\ bp_browser' = bp_browser
          /\ so_pc' = Handler("launch") /\ so_exc' = Some("launch")
    /\ UNCHANGED <<so_site, so_modules, so_proxy, so_cascade, so_status,
                   bp_closes, proxyVars,
                   gateVars, clientVars, cascadeVars, orchVars, reducerVars>>

\* what a step inside the try block leaves alone
stepFrame ==
    <<so_site, so_modules, so_proxy, so_cascade, so_status,
      bp_browser, bp_launch_arg, bp_closes, proxyVars,
      gateVars, clientVars, cascadeVars, orchVars, reducerVars>>

\* a step inside the try block returns and next follows, or it raises
StepOutcome(step, next) ==
    \/ so_pc' = next /\ so_exc' = so_exc
    \/ so_pc' = Handler(step) /\ so_exc' = Some(step)

\* line 168
CreateContext ==
    /\ so_pc = "create_context"
    /\ StepOutcome("create_context", "pre_navigation_setup")
    /\ UNCHANGED stepFrame

\* line 171
PreNavigationSetup ==
    /\ so_pc = "pre_navigation_setup"
    /\ StepOutcome("pre_navigation_setup", "new_page")
    /\ UNCHANGED stepFrame

\* line 173
NewPage ==
    /\ so_pc = "new_page"
    /\ StepOutcome("new_page", "goto")
    /\ UNCHANGED stepFrame

\* lines 177-179: the networkidle navigation; its exception is caught
Goto ==
    /\ so_pc = "goto"
    /\ so_pc' \in {"dismiss_cookies", "goto_fallback"}
    /\ UNCHANGED <<so_site, so_modules, so_proxy, so_cascade, so_status,
                   so_exc, bp_browser, bp_launch_arg, bp_closes, proxyVars,
                   gateVars, clientVars, cascadeVars, orchVars, reducerVars>>

\* lines 180-181: the domcontentloaded navigation
GotoFallback ==
    /\ so_pc = "goto_fallback"
    /\ StepOutcome("goto_fallback", "dismiss_cookies")
    /\ UNCHANGED stepFrame

\* lines 184-188: dismiss_cookies and the wait after it
DismissCookies ==
    /\ so_pc = "dismiss_cookies"
    /\ StepOutcome("dismiss_cookies",
                   IF so_site.requires_interaction THEN "run_interaction"
                   ELSE "stabilize_page")
    /\ UNCHANGED stepFrame

\* lines 188-190
RunInteraction ==
    /\ so_pc = "run_interaction"
    /\ StepOutcome("run_interaction", "stabilize_page")
    /\ UNCHANGED stepFrame

\* line 193
StabilizePage ==
    /\ so_pc = "stabilize_page"
    /\ StepOutcome("stabilize_page", "capture_page")
    /\ UNCHANGED stepFrame

\* lines 196-200: capture_page and the return statement
CapturePage ==
    /\ so_pc = "capture_page"
    /\ StepOutcome("capture_page", "finally")
    /\ UNCHANGED stepFrame

\* lines 202-204: browser.close(), then the return or the exception goes on
Finally ==
    /\ so_pc = "finally"
    /\ bp_browser' = "closed"
    /\ bp_closes' = bp_closes + 1
    /\ so_pc' = IF so_exc = None THEN "cascade" ELSE "except"
    /\ UNCHANGED <<so_site, so_modules, so_proxy, so_cascade, so_status,
                   so_exc, bp_launch_arg, proxyVars,
                   gateVars, clientVars, cascadeVars, orchVars, reducerVars>>

\* lines 116-134: the cascade and the success fields of the record
RunCascade ==
    /\ so_pc = "cascade"
    /\ so_cascade' = TRUE
    /\ \/ so_status' = "success" /\ so_pc' = "done" /\ so_exc' = so_exc
       \/ /\ so_status' = so_status /\ so_pc' = "except"
          /\ so_exc' = Some("extract_with_fallback")
    /\ UNCHANGED <<so_site, so_modules, so_proxy,
                   bp_browser, bp_launch_arg, bp_closes, proxyVars,
                   gateVars, clientVars, cascadeVars, orchVars, reducerVars>>

\* lines 136-139: the except branch of scrape_one
ItemFails ==
    /\ so_pc = "except"
    /\ so_status' = "error"
    /\ so_pc' = "done"
    /\ UNCHANGED <<so_site, so_modules, so_proxy, so_cascade, so_exc,
                   bp_browser, bp_launch_arg, bp_closes, proxyVars,
                   gateVars, clientVars, cascadeVars, orchVars, reducerVars>>

ScrapeNext ==
    \/ GetProxyConfig
    \/ AttemptWithoutUrl \/ AttemptValidates \/ LoopExhausted
    \/ ValidatedProxyReturned
    \/ LaunchBrowser \/ CreateContext \/ PreNavigationSetup \/ NewPage
    \/ Goto \/ GotoFallback \/ DismissCookies \/ RunInteraction
    \/ StabilizePage \/ CapturePage \/ Finally \/ RunCascade \/ ItemFails

SpecScrape == ScrapeInit /\ [][ScrapeNext]_vars

\* the positions of scrape_one after _browser_phase was left
AfterBrowserPhase == {"cascade", "except", "done"}

\* C26: once launch_browser has returned a browser, it is closed exactly
\* once on every way out of _browser_phase, the normal return and an
\* exception in any step after the launch; the cascade of the item is never
\* started while the browser is open.
C26_BrowserClosedOnce ==
    /\ bp_closes <= 1
    /\ bp_browser = "open" => bp_closes = 0 /\ so_pc \notin AfterBrowserPhase
    /\ so_pc \in AfterBrowserPhase =>
          IF bp_browser = "none"
          THEN bp_closes = 0 /\ so_exc = Some("launch")
          ELSE bp_browser = "closed" /\ bp_closes = 1
    /\ so_cascade => bp_browser = "closed" /\ bp_closes = 1

\* the interaction step of an item raised: the browser was closed once, the
\* cascade was not started and the item ended as an error
C26_Witness ==
    /\ so_pc = "done" /\ so_exc = Some("run_interaction")
    /\ bp_browser = "closed" /\ bp_closes = 1
    /\ ~so_cascade /\ so_status = "error"

\* get_proxy_config has returned None
NoProxy == so_proxy = Some(None)

\* C29: get_proxy_config returns no proxy for us, and for another country
\* when the enhanced validation found none or the proxy modules cannot be
\* imported; whenever it returns no proxy, scrape_one goes on to acquire
\* the page without a proxy, so that an item that ended did launch the
\* browser with no proxy and a failure of it comes from a later step.
C29_NoProxyDoesNotFailItem ==
    /\ so_proxy # None =>
          /\ Lower(px_country) = "us" => NoProxy
          /\ so_modules = {} => NoProxy
          /\ px_ret = Some(NoProxyFound) => NoProxy
    /\ (NoProxy /\ so_pc \in {"except", "done"}) =>
          /\ bp_launch_arg = Some(None)
          /\ so_status = "error" => so_exc # None
          /\ so_exc = None => so_status = "success" /\ so_cascade

\* an item for de whose three validation attempts all failed and which
\* ended as a success after a browser phase without proxy
C29_Witness ==
    /\ so_pc = "done" /\ so_status = "success"
    /\ Lower(px_country) = "de" /\ Len(px_history) = 3
    /\ px_ret = Some(NoProxyFound)
    /\ NoProxy /\ bp_launch_arg = Some(None) /\ bp_browser = "closed"

====
